---- MODULE Spec2Model ----
\* A model of the zha_quirks adapters: the devices built from one quirk
\* module, one of them followed in detail.  The device's manufacturer cluster receives attribute reports and
\* fans them out over the device's buses to the synthetic standard clusters;
\* a controller writes attributes of the synthetic clusters, which map them
\* back to manufacturer attributes and send them to the device.
\*
\* Values.  Every cached or written number is an exact rational <<n, d>> in
\* lowest terms (Python ints and the floats the code computes from them);
\* None is <<>>; a byte struct (data64, data144) is the tuple of its bytes.
\* Python's True/False are the numbers 1/0, which they equal.
EXTENDS Integers, Sequences, FiniteSets, TLC

VARIABLES
    adapter,        \* the quirk module the device is built from
    manufacturer,   \* endpoint.device.manufacturer (the SKU string)
    manuf,          \* manufacturer cluster _attr_cache: attrid -> raw value
    cache,          \* synthetic clusters: cluster -> (attribute -> value)
    events,         \* bus events published while the last operation ran
    written,        \* manufacturer writes issued by the last operation
    result,         \* what the last controller operation returned or raised
    last,           \* the last operation and its inputs
    budget,         \* operations the environment may still perform
    constructed,    \* the ieee of every device constructed, in order: the
                    \* manufacturer cluster of the k-th is instance k
    registry,       \* the module's <Adapter>ManufClusterSelf: ieee -> instance
    target,         \* the instance that received each manufacturer write
    pending         \* manufacturer writes awaited by write_attributes calls
                    \* that have not resumed yet

vars ==
    <<adapter, manufacturer, manuf, cache, events, written, result, last, budget,
      constructed, registry, target, pending>>

-----------------------------------------------------------------------------
\* Bounds of the model.

\* Operations performed on one device in one behaviour.
MaxSteps == 2

-----------------------------------------------------------------------------
\* Values.

None == <<>>

RECURSIVE Gcd(_, _)
Gcd(a, b) == IF b = 0 THEN a ELSE Gcd(b, a % b)

Abs(n) == IF n < 0 THEN -n ELSE n

\* The rational n/d (d > 0) in lowest terms.
Frac(n, d) ==
    LET g == Gcd(Abs(n), d)
    IN  IF n = 0 THEN <<0, 1>> ELSE <<n \div g, d \div g>>

Num(n) == <<n, 1>>

IsNum(v) == Len(v) = 2

Mul(v, k) == Frac(v[1] * k, v[2])

Div(v, k) == Frac(v[1], v[2] * k)

Add(v, k) == Frac(v[1] + k * v[2], v[2])

\* Python's round(x) of a float x: to the nearest integer, ties to even.
\* Ties n/d = k + 1/2 are exact in binary floating point, so the float
\* division the code performs first does not move them.
RoundHalfEven(n, d) ==
    LET q == n \div d
        r == n % d
    IN  IF 2 * r < d THEN q
        ELSE IF 2 * r > d THEN q + 1
        ELSE IF q % 2 = 0 THEN q ELSE q + 1

PyRound(v) == Num(RoundHalfEven(v[1], v[2]))

\* Python's int(x): truncation toward zero.
PyInt(v) == IF v[1] >= 0 THEN v[1] \div v[2] ELSE -((-v[1]) \div v[2])

\* x >= y on numbers.
Geq(x, y) == x[1] * y[2] >= y[1] * x[2]

\* dict.get(k) and dict.get(k, default) on an attribute cache.
Get(c, k) == IF k \in DOMAIN c THEN c[k] ELSE None

GetD(c, k, dflt) == IF k \in DOMAIN c THEN c[k] ELSE dflt

Put(c, k, v) == [x \in (DOMAIN c) \cup {k} |-> IF x = k THEN v ELSE c[x]]

\* The dict with the one entry k: v.
One(k, v) == [x \in {k} |-> v]

\* d1.update(d2).
Update(d1, d2) ==
    [x \in (DOMAIN d1) \cup (DOMAIN d2) |-> IF x \in DOMAIN d2 THEN d2[x] ELSE d1[x]]

EmptyDict == [x \in {} |-> None]

-----------------------------------------------------------------------------
\* ZCL enumerations the adapters store in the Thermostat cluster.

SystemMode_Off == 0

SystemMode_Heat == 4

RunningMode_Off == 0

RunningMode_Heat == 4

RunningState_Idle == 0

RunningState_Heat_State_On == 1

Occupancy_Unoccupied == 0

Occupancy_Occupied == 1

ProgrammingOperationMode_Simple == 0

ProgrammingOperationMode_Schedule_programming_mode == 1

\* An attribute id that no cluster and no adapter table defines.
UnknownAttr == 39321

\* A bus event: listener_event(name, *args) on the device's bus.
Ev(bus, name, args) == [bus |-> bus, name |-> name, args |-> args]

\* The outcome of a handler run by a bus: the listener's cache afterwards and
\* the events the handler published itself as its last statement.  A handler
\* that raises keeps the updates made before the raise; the bus logs the
\* exception and goes on.
Handled(c, publish) == [cache |-> c, publish |-> publish]

\* The outcome of map_attribute: a dict, None (the method fell off its end),
\* or an exception; cache is the cluster's own cache afterwards.
MapDict(attrs, c) == [kind |-> "dict", attrs |-> attrs, exc |-> "", cache |-> c]

MapNone(c) == [kind |-> "none", attrs |-> EmptyDict, exc |-> "", cache |-> c]

MapRaise(exc, c) == [kind |-> "raise", attrs |-> EmptyDict, exc |-> exc, cache |-> c]

\* TuyaThermostatCluster.temperature_change(attr, value).
temperature_change(c, ev) == Handled(Put(c, ev.args[1], ev.args[2]), <<>>)

\* TuyaThermostatCluster.state_change(value).
state_change(c, ev) ==
    IF ev.args[1] = Num(0)
    THEN Handled(Put(Put(c, "running_mode", Num(RunningMode_Off)),
                     "running_state", Num(RunningState_Idle)), <<>>)
    ELSE Handled(Put(Put(c, "running_mode", Num(RunningMode_Heat)),
                     "running_state", Num(RunningState_Heat_State_On)), <<>>)

-----------------------------------------------------------------------------
\* trv_saswell.py

SASWELL_CHILD_LOCK_ATTR == 296

SASWELL_ANTI_FREEZE_ATTR == 266

SASWELL_WINDOW_DETECT_ATTR == 264

SASWELL_LIMESCALE_PROTECT_ATTR == 386

SASWELL_TEMP_CORRECTION_ATTR == 539

SASWELL_ROOM_TEMP_ATTR == 614

SASWELL_AWAY_MODE_ATTR == 362

SASWELL_SCHEDULE_MODE_ATTR == 364

SASWELL_ONOFF_ATTR == 357

SASWELL_TARGET_TEMP_ATTR == 615

SASWELL_BATTERY_ALARM_ATTR == 1385

\* A forward table that scales the room temperature by 100 instead of 10.
SaswellManufCluster_DIRECT_MAPPED_ATTRS_x100(value) ==
    (SASWELL_ROOM_TEMP_ATTR :> <<"local_temperature", Mul(value, 100)>>)
    @@ (SASWELL_TARGET_TEMP_ATTR :> <<"occupied_heating_setpoint", Mul(value, 10)>>)
    @@ (SASWELL_TEMP_CORRECTION_ATTR :> <<"local_temperature_calibration", value>>)

\* SaswellManufCluster.DIRECT_MAPPED_ATTRS applied to a reported value:
\* attrid -> <<standard attribute, converted value>>.
SaswellManufCluster_DIRECT_MAPPED_ATTRS(value) ==
    (SASWELL_ROOM_TEMP_ATTR :> <<"local_temperature", Mul(value, 10)>>)
    @@ (SASWELL_TARGET_TEMP_ATTR :> <<"occupied_heating_setpoint", Mul(value, 10)>>)
    @@ (SASWELL_TEMP_CORRECTION_ATTR :> <<"local_temperature_calibration", value>>)

\* SaswellManufCluster._update_attribute: the bus events it publishes, in order.
SaswellManufCluster_update_attribute(attrid, value) ==
    LET mapped == SaswellManufCluster_DIRECT_MAPPED_ATTRS(value)
        direct ==
            IF attrid \in DOMAIN mapped
            THEN <<Ev("thermostat_bus", "temperature_change", mapped[attrid])>>
            ELSE <<>>
        rest ==
            IF attrid = SASWELL_ONOFF_ATTR
            THEN <<Ev("thermostat_bus", "on_off_event", <<value>>)>>
            ELSE IF attrid = SASWELL_SCHEDULE_MODE_ATTR
            THEN <<Ev("thermostat_onoff_bus", "schedule_mode_change", <<value>>)>>
            ELSE IF attrid = SASWELL_AWAY_MODE_ATTR
            THEN <<Ev("thermostat_onoff_bus", "away_mode_change", <<value>>)>>
            ELSE IF attrid = SASWELL_CHILD_LOCK_ATTR
            THEN <<Ev("ui_bus", "child_lock_change", <<value>>),
                   Ev("thermostat_onoff_bus", "child_lock_change", <<value>>)>>
            ELSE IF attrid = SASWELL_WINDOW_DETECT_ATTR
            THEN <<Ev("thermostat_onoff_bus", "window_detect_change", <<value>>)>>
            ELSE IF attrid = SASWELL_ANTI_FREEZE_ATTR
            THEN <<Ev("thermostat_onoff_bus", "anti_freeze_change", <<value>>)>>
            ELSE IF attrid = SASWELL_LIMESCALE_PROTECT_ATTR
            THEN <<Ev("thermostat_onoff_bus", "limescale_protection_change", <<value>>)>>
            ELSE IF attrid = SASWELL_BATTERY_ALARM_ATTR
            THEN <<Ev("battery_bus", "battery_alarm_event", <<value>>)>>
            ELSE IF attrid = SASWELL_TEMP_CORRECTION_ATTR
            THEN <<Ev("SaswellTempCalibration_bus", "set_value", <<value>>)>>
            ELSE IF attrid \in {SASWELL_ROOM_TEMP_ATTR, SASWELL_TARGET_TEMP_ATTR}
            THEN <<Ev("thermostat_bus", "hass_climate_state_change", <<Num(attrid), value>>)>>
            ELSE <<>>
    IN  direct \o rest

\* A reverse table that truncates value / 10 instead of rounding it.
SaswellThermostatCluster_DIRECT_MAPPING_ATTRS_trunc(value) ==
    ("local_temperature_calibration" :> <<SASWELL_TEMP_CORRECTION_ATTR, value>>)
    @@ ("occupied_heating_setpoint" :> <<SASWELL_TARGET_TEMP_ATTR, Num(PyInt(Div(value, 10)))>>)

\* SaswellThermostatCluster.DIRECT_MAPPING_ATTRS applied to a written value:
\* attribute -> <<manufacturer attrid, converted value>>.
SaswellThermostatCluster_DIRECT_MAPPING_ATTRS(value) ==
    ("local_temperature_calibration" :> <<SASWELL_TEMP_CORRECTION_ATTR, value>>)
    @@ ("occupied_heating_setpoint" :> <<SASWELL_TARGET_TEMP_ATTR, PyRound(Div(value, 10))>>)

SaswellThermostatCluster_map_attribute(c, attribute, value) ==
    LET mapping == SaswellThermostatCluster_DIRECT_MAPPING_ATTRS(value)
    IN  IF attribute \in DOMAIN mapping
        THEN MapDict(One(mapping[attribute][1], mapping[attribute][2]), c)
        ELSE IF attribute = "system_mode" /\ value = Num(SystemMode_Off)
        THEN MapDict(One(SASWELL_ONOFF_ATTR, Num(0)), c)
        ELSE IF attribute = "system_mode" /\ value = Num(SystemMode_Heat)
        THEN MapDict(One(SASWELL_ONOFF_ATTR, Num(1)), c)
        ELSE MapNone(c)

SaswellThermostatCluster_on_off_event(c, ev) ==
    IF ev.args[1] = Num(1)
    THEN Handled(Put(Put(Put(c, "system_mode", Num(SystemMode_Heat)),
                         "running_mode", Num(RunningMode_Heat)),
                     "running_state", Num(RunningState_Heat_State_On)), <<>>)
    ELSE Handled(Put(Put(Put(c, "system_mode", Num(SystemMode_Off)),
                         "running_mode", Num(RunningMode_Off)),
                     "running_state", Num(RunningState_Idle)), <<>>)

\* A handler that reports the valve idle whatever is cached.
SaswellThermostatCluster_hass_climate_state_change_idle(c, ev) ==
    Handled(c, <<Ev("thermostat_bus", "state_change", <<Num(0)>>)>>)

\* int(temp_current) >= int(temp_set + 2) raises TypeError when the cached
\* operand is None; the bus swallows it and no state_change is published.
SaswellThermostatCluster_hass_climate_state_change(c, ev) ==
    LET attrid == ev.args[1]
        value == ev.args[2]
        temp_current ==
            IF attrid = Num(SASWELL_ROOM_TEMP_ATTR)
            THEN Mul(value, 10) ELSE Get(c, "local_temperature")
        temp_set ==
            IF attrid = Num(SASWELL_ROOM_TEMP_ATTR)
            THEN Get(c, "occupied_heating_setpoint") ELSE Mul(value, 10)
    IN  IF Get(c, "system_mode") # Num(SystemMode_Heat)
        THEN Handled(c, <<Ev("thermostat_bus", "state_change", <<Num(0)>>)>>)
        ELSE IF temp_current = None \/ temp_set = None
        THEN Handled(c, <<>>)
        ELSE IF PyInt(temp_current) >= PyInt(Add(temp_set, 2))
        THEN Handled(c, <<Ev("thermostat_bus", "state_change", <<Num(0)>>)>>)
        ELSE Handled(c, <<Ev("thermostat_bus", "state_change", <<Num(1)>>)>>)

SaswellPowerConfigurationCluster_battery_alarm_event(c, ev) ==
    IF ev.args[1] = Num(1)
    THEN Handled(Put(c, "battery_percentage_remaining", Num(0)), <<>>)
    ELSE Handled(Put(c, "battery_percentage_remaining", Num(200)), <<>>)

\* SaswellTempCalibration.__init__.
SaswellTempCalibration_init ==
    ("description" :> "Temperature Calibration")
    @@ ("max_present_value" :> Num(6))
    @@ ("min_present_value" :> Num(-6))
    @@ ("resolution" :> Num(1))
    @@ ("application_type" :> Num(13 * 65536))
    @@ ("engineering_units" :> Num(62))

-----------------------------------------------------------------------------
\* ts0601_trv_maxsmart.py

MAXSMART_TARGET_TEMP_AUTO_ATTR == 617

MAXSMART_TARGET_TEMP_MAN_ATTR == 528

MAXSMART_TEMPERATURE_ATTR == 536

MAXSMART_MODE_ATTR == 1026

MAXSMART_CHILD_LOCK_ATTR == 286

MAXSMART_TEMP_CALIBRATION_ATTR == 616

MAXSMART_MIN_TEMPERATURE_VAL == 50

MAXSMART_MAX_TEMPERATURE_VAL == 2950

MAXSMART_WINDOW_DETECT_ATTR == 363

MAXSMART_WINDOW_DETECT_TEMP_ATTR == 628

MAXSMART_WINDOW_DETECT_TIME_ATTR == 629

MAXSMART_COMFORT_TEMP_ATTR == 613

MAXSMART_ECO_TEMP_ATTR == 614

MAXSMART_BATTERY_ATTR == 546

MAXSMART_AWAY_DATA_ATTR == 103

MAXSMART_BOOST_COUNTDOWN == 630

MAXSMART_BOOST_ATTR == 362

MAXSMART_SCHEDULE_MONDAY == 109

MAXSMART_SCHEDULE_SUNDAY == 115

SILVERCREST_BATTERY_ATTR == 547

SILVERCREST_CHILD_LOCK_ATTR == 296

\* MaxsmartThermostat.Preset.
Preset_Away == 0

Preset_Schedule == 1

Preset_Manual == 2

Preset_Boost == 5

\* The day names of the schedule attributes, MAXSMART_SCHEDULE_MONDAY first.
ScheduleDays ==
    <<"monday", "tuesday", "wednesday", "thursday", "friday", "saturday", "sunday">>

\* "schedule_" + day + "_" + str(math.ceil(y / 2)) + "_" + name.
ScheduleAttr(day, y) ==
    "schedule_" \o day \o "_" \o ToString((y + 1) \div 2) \o "_"
        \o (IF y % 2 = 1 THEN "temperature" ELSE "hour")

\* MaxsmartManufCluster.DIRECT_MAPPED_ATTRS applied to a reported value:
\* <<standard attribute, converted value>>, or <<>> for an attrid not in it.
MaxsmartManufCluster_DIRECT_MAPPED_ATTRS(attrid, value) ==
    CASE attrid = MAXSMART_TEMPERATURE_ATTR -> <<"local_temperature", Mul(value, 10)>>
      [] attrid = MAXSMART_TARGET_TEMP_AUTO_ATTR ->
            <<"occupied_heating_setpoint", Mul(Div(value, 2), 100)>>
      [] attrid = MAXSMART_TARGET_TEMP_MAN_ATTR ->
            <<"occupied_heating_setpoint", Mul(Div(value, 2), 100)>>
      [] attrid = MAXSMART_AWAY_DATA_ATTR ->
            <<"unoccupied_heating_setpoint", Mul(Div(Num(value[3]), 2), 100)>>
      [] attrid = MAXSMART_COMFORT_TEMP_ATTR -> <<"comfort_heating_setpoint", Div(value, 2)>>
      [] attrid = MAXSMART_ECO_TEMP_ATTR -> <<"eco_heating_setpoint", Div(value, 2)>>
      [] attrid = MAXSMART_TEMP_CALIBRATION_ATTR ->
            <<"local_temperature_calibration", Mul(value, 10)>>
      [] attrid = MAXSMART_WINDOW_DETECT_TEMP_ATTR -> <<"window_detection_temp", Div(value, 2)>>
      [] attrid = MAXSMART_WINDOW_DETECT_TIME_ATTR -> <<"window_detection_time", value>>
      [] OTHER -> <<>>

\* 100 if value > 130 else 0 if value < 70 else round((value - 70) * 1.67, 1).
\* The products the model reports are not halfway between two tenths, where
\* the float 1.67 would decide the rounding.
MaxsmartBatteryPercent(value) ==
    IF value[1] > 130 * value[2] THEN Num(100)
    ELSE IF value[1] < 70 * value[2] THEN Num(0)
    ELSE Frac(RoundHalfEven((value[1] - 70 * value[2]) * 167, 10 * value[2]), 10)

\* MaxsmartManufCluster._update_attribute: the bus events it publishes, in order.
MaxsmartManufCluster_update_attribute(attrid, value) ==
    LET direct(mapped) ==
            IF mapped # <<>>
            THEN <<Ev("thermostat_bus", "temperature_change", mapped)>>
            ELSE <<>>
        set(bus, v) == <<Ev(bus, "set_value", <<v>>)>>
        rest(mapped) ==
            IF attrid \in {MAXSMART_BATTERY_ATTR, SILVERCREST_BATTERY_ATTR}
            THEN <<Ev("battery_bus", "battery_change", <<MaxsmartBatteryPercent(value)>>)>>
            ELSE IF attrid = MAXSMART_WINDOW_DETECT_ATTR
            THEN set("MaxsmartWindowDetection_bus", value)
            ELSE IF attrid \in {MAXSMART_MODE_ATTR, MAXSMART_BOOST_ATTR}
            THEN IF attrid = MAXSMART_BOOST_ATTR /\ value = Num(1)
                 THEN <<Ev("thermostat_bus", "mode_change", <<Num(3)>>)>>
                 ELSE IF attrid = MAXSMART_MODE_ATTR
                 THEN <<Ev("thermostat_bus", "mode_change", <<value>>)>>
                 ELSE <<>>
            ELSE IF attrid \in {MAXSMART_TEMPERATURE_ATTR, MAXSMART_TARGET_TEMP_AUTO_ATTR,
                                MAXSMART_TARGET_TEMP_MAN_ATTR}
            THEN (IF attrid = MAXSMART_TARGET_TEMP_AUTO_ATTR
                  THEN <<Ev("thermostat_bus", "temperature_change",
                            <<"occupied_heating_setpoint_auto", mapped[2]>>)>>
                  ELSE IF attrid = MAXSMART_TARGET_TEMP_MAN_ATTR
                  THEN <<Ev("thermostat_bus", "temperature_change",
                            <<"occupied_heating_setpoint_manual", mapped[2]>>)>>
                  ELSE <<>>)
                 \o <<Ev("thermostat_bus", "hass_climate_state_change", <<Num(attrid), value>>)>>
            ELSE IF attrid \in {MAXSMART_CHILD_LOCK_ATTR, SILVERCREST_CHILD_LOCK_ATTR}
            THEN <<Ev("ui_bus", "child_lock_change", <<value>>),
                   Ev("thermostat_onoff_bus", "child_lock_change", <<value>>)>>
            ELSE IF attrid = MAXSMART_AWAY_DATA_ATTR
            THEN set("MaxsmartAwayYear_bus", Num(value[8]))
                 \o set("MaxsmartAwayMonth_bus", Num(value[7]))
                 \o set("MaxsmartAwayDay_bus", Num(value[6]))
                 \o set("MaxsmartAwayHour_bus", Num(value[5]))
                 \o set("MaxsmartAwayMinute_bus", Num(value[4]))
                 \o set("MaxsmartAwayTemperature_bus", Num(value[3]))
                 \o <<Ev("thermostat_bus", "temperature_change",
                         <<"occupied_heating_setpoint_away", mapped[2]>>)>>
                 \o <<Ev("MaxsmartAwayOperTime_bus", "set_value", <<Num(value[2]), Num(value[1])>>)>>
            ELSE IF attrid = MAXSMART_ECO_TEMP_ATTR
            THEN set("MaxsmartEcoTemperature_bus", mapped[2])
            ELSE IF attrid = MAXSMART_COMFORT_TEMP_ATTR
            THEN set("MaxsmartComfortTemperature_bus", mapped[2])
            ELSE IF attrid = MAXSMART_WINDOW_DETECT_TEMP_ATTR
            THEN set("MaxsmartWindowDetectTemperature_bus", mapped[2])
            ELSE IF attrid = MAXSMART_WINDOW_DETECT_TIME_ATTR
            THEN set("MaxsmartWindowDetectTime_bus", value)
            ELSE IF attrid = MAXSMART_BOOST_COUNTDOWN
            THEN set("MaxsmartBoostCountdown_bus", value)
            ELSE IF attrid = MAXSMART_TEMP_CALIBRATION_ATTR
            THEN set("MaxsmartTempCalibration_bus", Div(value, 10))
            ELSE IF attrid \in MAXSMART_SCHEDULE_MONDAY..MAXSMART_SCHEDULE_SUNDAY
            THEN <<Ev("thermostat_bus", "schedule_change", <<Num(attrid), value>>)>>
            \* the closing elif on MAXSMART_TARGET_TEMP_MAN_ATTR is shadowed by
            \* the temperature branch above and never runs
            ELSE <<>>
        published(mapped) == direct(mapped) \o rest(mapped)
    IN  published(MaxsmartManufCluster_DIRECT_MAPPED_ATTRS(attrid, value))

\* The value of key k in a dict given as the sequence of its items, or None.
Item(attributes, k) ==
    LET hits == SelectSeq(attributes, LAMBDA a : a[1] = k)
    IN  IF hits = <<>> THEN None ELSE hits[Len(hits)][2]

HasItem(attributes, k) == SelectSeq(attributes, LAMBDA a : a[1] = k) # <<>>

\* An away struct with the operating time in big-endian order.
away_cluster_get_big_endian(caches, field, attributes) ==
    LET cached(cl) == Get(caches[cl], "present_value")
        own(f, cl) == IF field = f THEN Item(attributes, "present_value") ELSE cached(cl)
        year == own("year", "MaxsmartAwayYear")
        month == own("month", "MaxsmartAwayMonth")
        day == own("day", "MaxsmartAwayDay")
        hour == own("hour", "MaxsmartAwayHour")
        minute == own("minute", "MaxsmartAwayMinute")
        temperature == own("temperature", "MaxsmartAwayTemperature")
        oper_time == own("oper_time", "MaxsmartAwayOperTime")
        raises ==
            \/ cached("MaxsmartAwayOperTime") = None
            \/ PyInt(cached("MaxsmartAwayOperTime")) \notin 0..65535
            \/ ~HasItem(attributes, "present_value")
            \/ field = "oper_time" /\ PyInt(oper_time) \notin 0..65535
            \/ None \in {year, month, day, hour, minute, temperature}
    IN  IF raises THEN [kind |-> "raise", data |-> <<>>]
        ELSE [kind |-> "return",
              data |-> <<PyInt(oper_time) \div 256, PyInt(oper_time) % 256,
                         PyInt(Mul(temperature, 2)), PyInt(minute), PyInt(hour),
                         PyInt(day), PyInt(month), PyInt(Add(year, -2000))>>]

\* MaxsmartManufCluster.away_cluster_get(field, attributes), called through
\* MaxsmartManufCluster_bus: the data64 struct, or nothing when the method
\* raises (int(None), None * 2, attributes["present_value"] missing, to_bytes
\* out of range) and the bus swallows the exception.
away_cluster_get(caches, field, attributes) ==
    LET cached(cl) == Get(caches[cl], "present_value")
        own(f, cl) == IF field = f THEN Item(attributes, "present_value") ELSE cached(cl)
        year == own("year", "MaxsmartAwayYear")
        month == own("month", "MaxsmartAwayMonth")
        day == own("day", "MaxsmartAwayDay")
        hour == own("hour", "MaxsmartAwayHour")
        minute == own("minute", "MaxsmartAwayMinute")
        temperature == own("temperature", "MaxsmartAwayTemperature")
        oper_time == own("oper_time", "MaxsmartAwayOperTime")
        raises ==
            \/ cached("MaxsmartAwayOperTime") = None
            \/ PyInt(cached("MaxsmartAwayOperTime")) \notin 0..65535
            \/ ~HasItem(attributes, "present_value")
            \/ field = "oper_time" /\ PyInt(oper_time) \notin 0..65535
            \/ None \in {year, month, day, hour, minute, temperature}
    IN  IF raises THEN [kind |-> "raise", data |-> <<>>]
        ELSE [kind |-> "return",
              data |-> <<PyInt(oper_time) % 256, PyInt(oper_time) \div 256,
                         PyInt(Mul(temperature, 2)), PyInt(minute), PyInt(hour),
                         PyInt(day), PyInt(month), PyInt(Add(year, -2000))>>]

\* A reverse table that halves less: round(value / 100) for the setpoints.
MaxsmartThermostat_DIRECT_MAPPING_ATTRS_div100(value) ==
    ("occupied_heating_setpoint_auto" :>
            <<MAXSMART_TARGET_TEMP_AUTO_ATTR, PyRound(Div(value, 100))>>)
    @@ ("occupied_heating_setpoint_manual" :>
            <<MAXSMART_TARGET_TEMP_MAN_ATTR, PyRound(Div(value, 100))>>)
    @@ ("occupied_heating_setpoint_away" :> <<MAXSMART_AWAY_DATA_ATTR, value>>)
    @@ ("comfort_heating_setpoint" :>
            <<MAXSMART_COMFORT_TEMP_ATTR, PyRound(Mul(Div(value, 100), 2))>>)
    @@ ("eco_heating_setpoint" :> <<MAXSMART_ECO_TEMP_ATTR, PyRound(Mul(Div(value, 100), 2))>>)
    @@ ("local_temperature_calibration" :>
            <<MAXSMART_TEMP_CALIBRATION_ATTR, PyRound(Div(value, 10))>>)
    @@ ("window_detection_temp" :>
            <<MAXSMART_WINDOW_DETECT_TEMP_ATTR, PyRound(Mul(Div(value, 100), 2))>>)
    @@ ("window_detection_time" :> <<MAXSMART_WINDOW_DETECT_TIME_ATTR, value>>)

\* MaxsmartThermostat.DIRECT_MAPPING_ATTRS applied to a written value.
MaxsmartThermostat_DIRECT_MAPPING_ATTRS(value) ==
    ("occupied_heating_setpoint_auto" :>
            <<MAXSMART_TARGET_TEMP_AUTO_ATTR, PyRound(Mul(Div(value, 100), 2))>>)
    @@ ("occupied_heating_setpoint_manual" :>
            <<MAXSMART_TARGET_TEMP_MAN_ATTR, PyRound(Mul(Div(value, 100), 2))>>)
    @@ ("occupied_heating_setpoint_away" :> <<MAXSMART_AWAY_DATA_ATTR, value>>)
    @@ ("comfort_heating_setpoint" :>
            <<MAXSMART_COMFORT_TEMP_ATTR, PyRound(Mul(Div(value, 100), 2))>>)
    @@ ("eco_heating_setpoint" :> <<MAXSMART_ECO_TEMP_ATTR, PyRound(Mul(Div(value, 100), 2))>>)
    @@ ("local_temperature_calibration" :>
            <<MAXSMART_TEMP_CALIBRATION_ATTR, PyRound(Div(value, 10))>>)
    @@ ("window_detection_temp" :>
            <<MAXSMART_WINDOW_DETECT_TEMP_ATTR, PyRound(Mul(Div(value, 100), 2))>>)
    @@ ("window_detection_time" :> <<MAXSMART_WINDOW_DETECT_TIME_ATTR, value>>)

\* A schedule struct whose hours are in halves like the temperatures.
MaxsmartSchedule_hours_in_halves(c, attribute, value) ==
    LET num == CHOOSE n \in 1..7 :
                    \E y \in 1..17 : attribute = ScheduleAttr(ScheduleDays[n], y)
        field(y) == IF attribute = ScheduleAttr(ScheduleDays[num], y) THEN value
                    ELSE Get(c, ScheduleAttr(ScheduleDays[num], y))
        val(y) == RoundHalfEven(field(y)[1] * 2, field(y)[2])
    IN  IF \E y \in 1..17 : field(y) = None
        THEN MapRaise("TypeError", c)
        ELSE MapDict(One(MAXSMART_SCHEDULE_MONDAY + num - 1,
                         [i \in 1..18 |-> IF i = 18 THEN num ELSE val(18 - i)]), c)

\* The schedule branch of MaxsmartThermostat.map_attribute: the data144 of
\* the day of the written attribute, the written value replacing the cached
\* one; round(None * 2) raises TypeError.
MaxsmartSchedule(c, attribute, value) ==
    LET num == CHOOSE n \in 1..7 :
                    \E y \in 1..17 : attribute = ScheduleAttr(ScheduleDays[n], y)
        field(y) == IF attribute = ScheduleAttr(ScheduleDays[num], y) THEN value
                    ELSE Get(c, ScheduleAttr(ScheduleDays[num], y))
        val(y) == RoundHalfEven(field(y)[1] * (IF y % 2 = 1 THEN 2 ELSE 4), field(y)[2])
    IN  IF \E y \in 1..17 : field(y) = None
        THEN MapRaise("TypeError", c)
        ELSE MapDict(One(MAXSMART_SCHEDULE_MONDAY + num - 1,
                         [i \in 1..18 |-> IF i = 18 THEN num ELSE val(18 - i)]), c)

\* MaxsmartThermostat.map_attribute; c is the cluster's own cache.
MaxsmartThermostat_map_attribute(caches, attribute, value) ==
    LET c == caches["MaxsmartThermostat"]
        mode == GetD(c, "operation_preset", Num(Preset_Schedule))
        attribute_mode ==
            IF mode \in {Num(Preset_Schedule), Num(Preset_Boost)}
            THEN "occupied_heating_setpoint_auto"
            ELSE IF mode = Num(Preset_Manual) THEN "occupied_heating_setpoint_manual"
            ELSE ""
        occupancy == IF attribute = "occupancy" THEN value
                     ELSE GetD(c, "occupancy", Num(Occupancy_Occupied))
        oper_mode == IF attribute = "occupancy"
                     THEN GetD(c, "programing_oper_mode", Num(ProgrammingOperationMode_Simple))
                     ELSE value
        map(mapping, data) ==
        IF attribute \in DOMAIN mapping
        THEN MapDict(One(mapping[attribute][1], mapping[attribute][2]), c)
        ELSE IF attribute = "occupied_heating_setpoint"
        THEN IF mode # Num(Preset_Away)
             THEN IF attribute_mode = "" THEN MapRaise("KeyError", c)
                  ELSE MapDict(One(mapping[attribute_mode][1], mapping[attribute_mode][2]), c)
             ELSE IF data.kind = "raise" THEN MapRaise("IndexError", c)
                  ELSE MapDict(One(MAXSMART_AWAY_DATA_ATTR, data.data),
                               Put(c, "occupied_heating_setpoint",
                                   Mul(Div(Num(data.data[3]), 2), 100)))
        ELSE IF attribute = "operation_preset" /\ value \in {Num(0), Num(1), Num(2), Num(5)}
        THEN IF value = Num(0)
             THEN MapDict((MAXSMART_MODE_ATTR :> Num(2)) @@ (MAXSMART_BOOST_ATTR :> Num(0)), c)
             ELSE IF value = Num(1)
             THEN MapDict((MAXSMART_MODE_ATTR :> Num(0)) @@ (MAXSMART_BOOST_ATTR :> Num(0)), c)
             ELSE IF value = Num(2)
             THEN MapDict((MAXSMART_MODE_ATTR :> Num(1)) @@ (MAXSMART_BOOST_ATTR :> Num(0)), c)
             ELSE MapDict(One(MAXSMART_BOOST_ATTR, Num(1)), c)
        ELSE IF attribute \in {"programing_oper_mode", "occupancy"}
                /\ occupancy = Num(Occupancy_Unoccupied)
        THEN MapDict(One(MAXSMART_MODE_ATTR, Num(2)), c)
        ELSE IF attribute \in {"programing_oper_mode", "occupancy"}
                /\ occupancy = Num(Occupancy_Occupied)
                /\ oper_mode = Num(ProgrammingOperationMode_Schedule_programming_mode)
        THEN MapDict(One(MAXSMART_MODE_ATTR, Num(0)), c)
        ELSE IF attribute \in {"programing_oper_mode", "occupancy"}
                /\ occupancy = Num(Occupancy_Occupied)
                /\ oper_mode = Num(ProgrammingOperationMode_Simple)
        THEN MapDict(One(MAXSMART_MODE_ATTR, Num(1)), c)
        ELSE IF attribute = "system_mode"
        THEN IF value = Num(SystemMode_Off)
             THEN MapDict((MAXSMART_MODE_ATTR :> Num(1))
                          @@ (MAXSMART_TARGET_TEMP_MAN_ATTR :> Num(0)), c)
             ELSE MapDict(One(MAXSMART_MODE_ATTR, Num(0)), c)
        ELSE IF \E n \in 1..7, y \in 1..17 : attribute = ScheduleAttr(ScheduleDays[n], y)
        THEN MaxsmartSchedule(c, attribute, value)
        ELSE MapNone(c)
    IN  map(MaxsmartThermostat_DIRECT_MAPPING_ATTRS(value),
            away_cluster_get(caches, "temperature", <<<<"present_value", Div(value, 100)>>>>))

\* MaxsmartThermostat.hass_climate_state_change: int(None) raises TypeError
\* when the cached operand is None.
MaxsmartThermostat_hass_climate_state_change(c, ev) ==
    LET attrid == ev.args[1]
        value == ev.args[2]
        temp_current ==
            IF attrid = Num(MAXSMART_TEMPERATURE_ATTR)
            THEN Mul(value, 10) ELSE GetD(c, "local_temperature", Num(0))
        temp_set ==
            IF attrid = Num(MAXSMART_TEMPERATURE_ATTR)
            THEN GetD(c, "occupied_heating_setpoint", Num(0)) ELSE Mul(Div(value, 2), 100)
    IN  IF temp_current = None \/ temp_set = None
        THEN Handled(c, <<>>)
        ELSE IF PyInt(temp_current) >= PyInt(temp_set)
        THEN Handled(c, <<Ev("thermostat_bus", "state_change", <<Num(0)>>)>>)
        ELSE Handled(c, <<Ev("thermostat_bus", "state_change", <<Num(1)>>)>>)

\* A decoder whose away row carries the manual preset and setpoint.
MaxsmartThermostat_mode_change_locals_swapped(value) ==
    CASE value = Num(0) ->
            <<Preset_Schedule, ProgrammingOperationMode_Schedule_programming_mode,
              Occupancy_Occupied, "occupied_heating_setpoint_auto">>
      [] value = Num(1) ->
            <<Preset_Manual, ProgrammingOperationMode_Simple,
              Occupancy_Occupied, "occupied_heating_setpoint_manual">>
      [] value = Num(2) ->
            <<Preset_Manual, ProgrammingOperationMode_Simple,
              Occupancy_Occupied, "occupied_heating_setpoint_manual">>
      [] value = Num(3) ->
            <<Preset_Boost, ProgrammingOperationMode_Simple, Occupancy_Occupied, "">>
      [] OTHER -> <<>>

\* The locals MaxsmartThermostat.mode_change binds for a mode value:
\* <<operation_preset, prog_mode, occupancy, the cached setpoint it copies>>;
\* <<>> for a value outside 0..3, which leaves them unbound.
MaxsmartThermostat_mode_change_locals(value) ==
    CASE value = Num(0) ->
            <<Preset_Schedule, ProgrammingOperationMode_Schedule_programming_mode,
              Occupancy_Occupied, "occupied_heating_setpoint_auto">>
      [] value = Num(1) ->
            <<Preset_Manual, ProgrammingOperationMode_Simple,
              Occupancy_Occupied, "occupied_heating_setpoint_manual">>
      [] value = Num(2) ->
            <<Preset_Away, ProgrammingOperationMode_Simple,
              Occupancy_Unoccupied, "occupied_heating_setpoint_away">>
      [] value = Num(3) ->
            <<Preset_Boost, ProgrammingOperationMode_Simple, Occupancy_Occupied, "">>
      [] OTHER -> <<>>

\* MaxsmartThermostat.mode_change: a value outside 0..3 raises
\* UnboundLocalError before anything is updated.
MaxsmartThermostat_mode_change(c, ev) ==
    LET value == ev.args[1]
        locals == MaxsmartThermostat_mode_change_locals(value)
        temp == Get(c, locals[4])
        c1 == IF locals[4] # "" THEN Put(c, "occupied_heating_setpoint", temp) ELSE c
        c2 == Put(Put(Put(c1, "programing_oper_mode", Num(locals[2])),
                      "occupancy", Num(locals[3])),
                  "operation_preset", Num(locals[1]))
    IN  IF locals = <<>>
        THEN Handled(c, <<>>)
        ELSE IF value = Num(1) /\ temp = Num(0)
        THEN Handled(Put(c2, "system_mode", Num(SystemMode_Off)), <<>>)
        ELSE Handled(Put(c2, "system_mode", Num(SystemMode_Heat)), <<>>)

\* MaxsmartThermostat.schedule_change: the 17 fields of the day's data144.
RECURSIVE MaxsmartThermostat_schedule_change_from(_, _, _)
MaxsmartThermostat_schedule_change_from(c, ev, y) ==
    IF y > 17 THEN Handled(c, <<>>)
    ELSE LET day == ScheduleDays[ev.args[1][1] - MAXSMART_SCHEDULE_MONDAY + 1]
             byte == Num(ev.args[2][18 - y])
         IN  MaxsmartThermostat_schedule_change_from(
                Put(c, ScheduleAttr(day, y), IF y % 2 = 1 THEN Div(byte, 2) ELSE Div(byte, 4)),
                ev, y + 1)

-----------------------------------------------------------------------------
\* ts0601_thermostat_electsmart.py

ELECTSMART_TARGET_TEMP_ATTR == 528

ELECTSMART_TEMPERATURE_ATTR == 614

ELECTSMART_MODE_ATTR == 1026

ELECTSMART_SYSTEM_MODE_ATTR == 257

ELECTSMART_HEAT_STATE_ATTR == 1060

ELECTSMART_CHILD_LOCK_ATTR == 296

ELECTSMART_TEMP_CALIBRATION_ATTR == 539

ELECTSMART_MIN_TEMPERATURE_VAL == 500

ELECTSMART_MAX_TEMPERATURE_VAL == 3500

\* A negation that hands the value back.
Not_same(value) == value

\* Python's not value, which state_change compares with 0.
Not(value) == IF value = Num(0) THEN Num(1) ELSE Num(0)

\* ElectsmartManufCluster.DIRECT_MAPPED_ATTRS applied to a reported value.
ElectsmartManufCluster_DIRECT_MAPPED_ATTRS(value) ==
    (ELECTSMART_TEMPERATURE_ATTR :> <<"local_temperature", Mul(value, 10)>>)
    @@ (ELECTSMART_TARGET_TEMP_ATTR :> <<"occupied_heating_setpoint", Mul(value, 10)>>)

\* ElectsmartManufCluster._update_attribute: the bus events it publishes.
ElectsmartManufCluster_update_attribute(dev, attrid, value) ==
    LET direct(mapped) ==
            IF attrid \in DOMAIN mapped
            THEN <<Ev("thermostat_bus", "temperature_change", mapped[attrid])>>
            ELSE <<>>
        calibration ==
            IF attrid = ELECTSMART_TEMP_CALIBRATION_ATTR
            THEN <<Ev("ElectsmartTempCalibration_bus", "set_value", <<Div(value, 10)>>)>>
            ELSE <<>>
        rest ==
            IF attrid = ELECTSMART_CHILD_LOCK_ATTR
            THEN <<Ev("ui_bus", "child_lock_change", <<value>>),
                   Ev("thermostat_onoff_bus", "child_lock_change", <<value>>)>>
            ELSE IF attrid = ELECTSMART_MODE_ATTR
            THEN <<Ev("thermostat_bus", "mode_change", <<value>>)>>
            ELSE IF attrid = ELECTSMART_HEAT_STATE_ATTR
            THEN IF dev.manufacturer = "_TZE200_g9a3awaj"
                 THEN <<Ev("thermostat_bus", "state_change", <<value>>)>>
                 ELSE <<Ev("thermostat_bus", "state_change", <<Not(value)>>)>>
            ELSE IF attrid = ELECTSMART_SYSTEM_MODE_ATTR
            THEN <<Ev("thermostat_bus", "system_mode_change", <<value>>)>>
            ELSE <<>>
    IN  direct(ElectsmartManufCluster_DIRECT_MAPPED_ATTRS(value)) \o calibration \o rest

\* ElectsmartThermostat.DIRECT_MAPPING_ATTRS applied to a written value.
ElectsmartThermostat_DIRECT_MAPPING_ATTRS(value) ==
    "occupied_heating_setpoint" :> <<ELECTSMART_TARGET_TEMP_ATTR, PyRound(Div(value, 100))>>

\* The programing_oper_mode / occupancy branch of the Electsmart and Avatto
\* map_attribute: the mode byte, or None when it only logs an error.
OccupancyMode(c, attribute, value) ==
    LET occupancy == IF attribute = "occupancy" THEN value
                     ELSE GetD(c, "occupancy", Num(Occupancy_Occupied))
        oper_mode == IF attribute = "occupancy"
                     THEN GetD(c, "programing_oper_mode", Num(ProgrammingOperationMode_Simple))
                     ELSE value
    IN  IF occupancy # Num(Occupancy_Occupied) THEN None
        ELSE IF oper_mode = Num(ProgrammingOperationMode_Schedule_programming_mode) THEN Num(1)
        ELSE IF oper_mode = Num(ProgrammingOperationMode_Simple) THEN Num(0)
        ELSE None

ElectsmartThermostat_map_attribute(c, attribute, value) ==
    LET map(mapping) ==
            IF attribute \in DOMAIN mapping
            THEN MapDict(One(mapping[attribute][1], mapping[attribute][2]), c)
            ELSE IF attribute = "operation_preset" /\ value = Num(1)
            THEN MapDict(One(ELECTSMART_MODE_ATTR, Num(1)), c)
            ELSE IF attribute = "operation_preset" /\ value = Num(2)
            THEN MapDict(One(ELECTSMART_MODE_ATTR, Num(0)), c)
            ELSE IF attribute \in {"programing_oper_mode", "occupancy"}
                    /\ OccupancyMode(c, attribute, value) # None
            THEN MapDict(One(ELECTSMART_MODE_ATTR, OccupancyMode(c, attribute, value)), c)
            ELSE IF attribute = "system_mode"
            THEN MapDict(One(ELECTSMART_SYSTEM_MODE_ATTR,
                             IF value = Num(SystemMode_Off) THEN Num(0) ELSE Num(1)), c)
            ELSE MapNone(c)
    IN  map(ElectsmartThermostat_DIRECT_MAPPING_ATTRS(value))

\* ElectsmartThermostat.mode_change.
ElectsmartThermostat_mode_change(c, ev) ==
    IF ev.args[1] = Num(0)
    THEN Handled(Put(Put(Put(c, "programing_oper_mode", Num(ProgrammingOperationMode_Simple)),
                         "occupancy", Num(Occupancy_Occupied)),
                     "operation_preset", Num(Preset_Manual)), <<>>)
    ELSE Handled(Put(Put(Put(c, "programing_oper_mode",
                             Num(ProgrammingOperationMode_Schedule_programming_mode)),
                         "occupancy", Num(Occupancy_Occupied)),
                     "operation_preset", Num(Preset_Schedule)), <<>>)

\* system_mode_change of the Electsmart, Avatto and Etop thermostats.
system_mode_change(c, ev) ==
    IF ev.args[1] = Num(0)
    THEN Handled(Put(c, "system_mode", Num(SystemMode_Off)), <<>>)
    ELSE Handled(Put(c, "system_mode", Num(SystemMode_Heat)), <<>>)

-----------------------------------------------------------------------------
\* ts0601_trv_me167.py

ME167_TEMPERATURE_ATTR == 517

ME167_TARGET_TEMP_ATTR == 516

ME167_TEMP_CALIBRATION_ATTR == 559

ME167_CHILD_LOCK_ATTR == 263

ME167_BATTERY_STATE_ATTR == 1315

ME167_MODE_ATTR == 1026

ME167_STATE_ATTR == 1027

ME167_MIN_TEMPERATURE_VAL == 5

ME167_MAX_TEMPERATURE_VAL == 35

ME167_FROST_PROTECTION == 292

\* ME167ManufCluster.TEMPERATURE_ATTRS applied to a reported value.
ME167ManufCluster_TEMPERATURE_ATTRS(value) ==
    (ME167_TEMPERATURE_ATTR :> <<"local_temperature", Mul(value, 10)>>)
    @@ (ME167_TARGET_TEMP_ATTR :> <<"occupied_heating_setpoint", Mul(value, 10)>>)
    @@ (ME167_TEMP_CALIBRATION_ATTR :> <<"local_temperature_calibration", value>>)

\* ME167ManufCluster._update_attribute: one if / elif chain, so the branch
\* of ME167_TEMP_CALIBRATION_ATTR that would publish set_value never runs.
ME167ManufCluster_update_attribute(attrid, value) ==
    LET published(mapped) ==
            IF attrid \in DOMAIN mapped
            THEN <<Ev("thermostat_bus", "temperature_change", mapped[attrid])>>
            ELSE IF attrid = ME167_MODE_ATTR
            THEN <<Ev("thermostat_bus", "mode_change", <<value>>)>>
            ELSE IF attrid = ME167_CHILD_LOCK_ATTR
            THEN <<Ev("ui_bus", "child_lock_change", <<value>>),
                   Ev("thermostat_onoff_bus", "child_lock_change", <<value>>)>>
            ELSE IF attrid = ME167_STATE_ATTR
            THEN <<Ev("thermostat_bus", "hass_climate_state_change", <<value>>)>>
            ELSE IF attrid = ME167_BATTERY_STATE_ATTR
            THEN <<Ev("battery_bus", "battery_change",
                      <<IF value = Num(1) THEN Num(0) ELSE Num(100)>>)>>
            ELSE IF attrid = ME167_TEMP_CALIBRATION_ATTR
            THEN <<Ev("ME167TempCalibration_bus", "set_value", <<value>>)>>
            ELSE IF attrid = ME167_FROST_PROTECTION
            THEN <<Ev("thermostat_onoff_bus", "frost_protection_change", <<value>>)>>
            ELSE <<>>
    IN  published(ME167ManufCluster_TEMPERATURE_ATTRS(value))

\* ME167Thermostat.DIRECT_MAPPING_ATTRS applied to a written value.
ME167Thermostat_DIRECT_MAPPING_ATTRS(value) ==
    ("occupied_heating_setpoint" :> <<ME167_TARGET_TEMP_ATTR, PyRound(Div(value, 10))>>)
    @@ ("operation_preset" :> <<ME167_MODE_ATTR, value>>)
    @@ ("local_temperature_calibration" :> <<ME167_TEMP_CALIBRATION_ATTR, value>>)

ME167Thermostat_map_attribute(c, attribute, value) ==
    LET system_mode == IF attribute = "system_mode" THEN value
                       ELSE GetD(c, "system_mode", Num(SystemMode_Heat))
        oper_mode == IF attribute = "system_mode"
                     THEN GetD(c, "programing_oper_mode", Num(ProgrammingOperationMode_Simple))
                     ELSE value
        map(mapping) ==
            IF attribute \in DOMAIN mapping
            THEN MapDict(One(mapping[attribute][1], mapping[attribute][2]), c)
            ELSE IF attribute \notin {"system_mode", "programing_oper_mode"}
            THEN MapNone(c)
            ELSE IF system_mode = Num(SystemMode_Off)
            THEN MapDict(One(ME167_MODE_ATTR, Num(2)), c)
            ELSE IF system_mode = Num(SystemMode_Heat)
                    /\ oper_mode = Num(ProgrammingOperationMode_Schedule_programming_mode)
            THEN MapDict(One(ME167_MODE_ATTR, Num(0)), c)
            ELSE IF system_mode = Num(SystemMode_Heat)
                    /\ oper_mode = Num(ProgrammingOperationMode_Simple)
            THEN MapDict(One(ME167_MODE_ATTR, Num(1)), c)
            ELSE MapNone(c)
    IN  map(ME167Thermostat_DIRECT_MAPPING_ATTRS(value))

\* ME167Thermostat.hass_climate_state_change.
ME167Thermostat_hass_climate_state_change(c, ev) ==
    Handled(c, <<Ev("thermostat_bus", "state_change", <<Not(ev.args[1])>>)>>)

\* ME167Thermostat.mode_change: a value outside 0..2 leaves the locals
\* unbound and the handler raises before it updates anything.
ME167Thermostat_mode_change(c, ev) ==
    LET value == ev.args[1]
        update(system_mode, prog_mode, operation_preset) ==
            Handled(Put(Put(Put(Put(c, "system_mode", Num(system_mode)),
                                "programing_oper_mode", Num(prog_mode)),
                            "occupancy", Num(Occupancy_Occupied)),
                        "operation_preset", Num(operation_preset)), <<>>)
    IN  IF value = Num(0)
        THEN update(SystemMode_Heat, ProgrammingOperationMode_Schedule_programming_mode,
                    Preset_Schedule)
        ELSE IF value = Num(1)
        THEN update(SystemMode_Heat, ProgrammingOperationMode_Simple, Preset_Manual)
        ELSE IF value = Num(2)
        THEN update(SystemMode_Off, ProgrammingOperationMode_Simple, Preset_Manual)
        ELSE Handled(c, <<>>)

-----------------------------------------------------------------------------
\* ts0601_trv_etop.py

ETOP_TARGET_TEMP_ATTR == 528

ETOP_TEMPERATURE_ATTR == 536

ETOP_PRESET_ATTR == 1026

ETOP_SYSTEM_MODE_ATTR == 257

ETOP_BATTERY_STATE_ATTR == 1315

ETOP_WINDOW_DETECT_FUNC_ATTR == 264

ETOP_MIN_TEMPERATURE_VAL == 5

ETOP_MAX_TEMPERATURE_VAL == 30

\* EtopManufCluster.DIRECT_MAPPED_ATTRS applied to a reported value.
EtopManufCluster_DIRECT_MAPPED_ATTRS(value) ==
    (ETOP_TEMPERATURE_ATTR :> <<"local_temperature", Mul(value, 10)>>)
    @@ (ETOP_TARGET_TEMP_ATTR :> <<"occupied_heating_setpoint", Mul(value, 10)>>)

\* EtopManufCluster._update_attribute: the bus events it publishes.
EtopManufCluster_update_attribute(attrid, value) ==
    LET direct(mapped) ==
            IF attrid \in DOMAIN mapped
            THEN <<Ev("thermostat_bus", "temperature_change", mapped[attrid])>>
            ELSE <<>>
        rest ==
            IF attrid = ETOP_PRESET_ATTR
            THEN <<Ev("thermostat_bus", "preset_change", <<value>>)>>
            ELSE IF attrid = ETOP_SYSTEM_MODE_ATTR
            THEN <<Ev("thermostat_bus", "system_mode_change", <<value>>)>>
            ELSE IF attrid = ETOP_BATTERY_STATE_ATTR
            THEN <<Ev("battery_bus", "battery_change",
                      <<IF value = Num(1) THEN Num(0) ELSE Num(100)>>)>>
            ELSE IF attrid = ETOP_WINDOW_DETECT_FUNC_ATTR
            THEN <<Ev("thermostat_onoff_bus", "window_detect_func_change", <<value>>)>>
            ELSE <<>>
    IN  direct(EtopManufCluster_DIRECT_MAPPED_ATTRS(value)) \o rest

\* EtopThermostat.map_attribute; DIRECT_MAPPING_ATTRS holds
\* occupied_heating_setpoint alone.
EtopThermostat_map_attribute(c, attribute, value) ==
    IF attribute = "occupied_heating_setpoint"
    THEN MapDict(One(ETOP_TARGET_TEMP_ATTR, PyRound(Div(value, 10))), c)
    ELSE IF attribute = "operation_preset" /\ value = Num(Preset_Manual)
    THEN MapDict(One(ETOP_PRESET_ATTR, Num(0)), c)
    ELSE IF attribute = "operation_preset" /\ value = Num(Preset_Away)
    THEN MapDict(One(ETOP_PRESET_ATTR, Num(1)), c)
    ELSE IF attribute = "operation_preset" /\ value = Num(Preset_Schedule)
    THEN MapDict(One(ETOP_PRESET_ATTR, Num(2)), c)
    ELSE IF attribute = "system_mode"
    THEN MapDict(One(ETOP_SYSTEM_MODE_ATTR,
                     IF value = Num(SystemMode_Off) THEN Num(0) ELSE Num(1)), c)
    ELSE MapNone(c)

\* A decoder that takes the away byte for the schedule.
EtopThermostat_preset_change_away_as_schedule(c, ev) ==
    LET update(operation_preset, prog_mode, occupancy) ==
            Handled(Put(Put(Put(c, "programing_oper_mode", Num(prog_mode)),
                            "occupancy", Num(occupancy)),
                        "operation_preset", Num(operation_preset)), <<>>)
    IN  IF ev.args[1] = Num(0)
        THEN update(Preset_Manual, ProgrammingOperationMode_Simple, Occupancy_Occupied)
        ELSE update(Preset_Schedule, ProgrammingOperationMode_Schedule_programming_mode,
                    Occupancy_Occupied)

\* EtopThermostat.preset_change.
EtopThermostat_preset_change(c, ev) ==
    LET update(operation_preset, prog_mode, occupancy) ==
            Handled(Put(Put(Put(c, "programing_oper_mode", Num(prog_mode)),
                            "occupancy", Num(occupancy)),
                        "operation_preset", Num(operation_preset)), <<>>)
    IN  IF ev.args[1] = Num(0)
        THEN update(Preset_Manual, ProgrammingOperationMode_Simple, Occupancy_Occupied)
        ELSE IF ev.args[1] = Num(1)
        THEN update(Preset_Away, ProgrammingOperationMode_Simple, Occupancy_Unoccupied)
        ELSE update(Preset_Schedule, ProgrammingOperationMode_Schedule_programming_mode,
                    Occupancy_Occupied)

-----------------------------------------------------------------------------
\* ts0601_thermostat_avatto.py

AVATTO_TARGET_TEMP_ATTR == 528

AVATTO_TEMPERATURE_ATTR == 536

AVATTO_MODE_ATTR == 1026

AVATTO_SYSTEM_MODE_ATTR == 257

AVATTO_HEAT_STATE_ATTR == 1060

BEOK_HEAT_STATE_ATTR == 1027

AVATTO_CHILD_LOCK_ATTR == 296

AVATTO_TEMP_CALIBRATION_ATTR == 539

AVATTO_MIN_TEMPERATURE_VAL == 500

AVATTO_MAX_TEMPERATURE_VAL == 3000

\* The SKUs whose temperatures come in tenths of a degree.
AvattoTenths == {"_TZE200_2ekuz3dz", "_TZE200_g9a3awaj"}

\* The SKUs whose room temperature alone comes in tenths of a degree.
AvattoRoomTenths ==
    {"_TZE204_u9bfwha0", "_TZE200_u9bfwha0", "_TZE200_aoclfnxz", "_TZE204_aoclfnxz"}

\* A handler that forwards every report to the thermostat as a room
\* temperature, whatever its attribute id.
AvattoManufCluster_update_attribute_forward_all(dev, attrid, value) ==
    <<Ev("thermostat_bus", "temperature_change", <<"local_temperature", Mul(value, 10)>>)>>

\* AvattoManufCluster._update_attribute: the bus events it publishes.
AvattoManufCluster_update_attribute(dev, attrid, value) ==
    LET name == IF attrid = AVATTO_TEMPERATURE_ATTR THEN "local_temperature"
                ELSE "occupied_heating_setpoint"
        tenths == \/ dev.manufacturer \in AvattoTenths
                  \/ attrid = AVATTO_TEMPERATURE_ATTR /\ dev.manufacturer \in AvattoRoomTenths
        direct ==
            IF attrid \in {AVATTO_TEMPERATURE_ATTR, AVATTO_TARGET_TEMP_ATTR}
                    /\ value[1] < 500 * value[2]
            THEN <<Ev("thermostat_bus", "temperature_change",
                      <<name, IF tenths THEN Mul(value, 10) ELSE Mul(value, 100)>>)>>
            ELSE <<>>
        calibration ==
            IF attrid = AVATTO_TEMP_CALIBRATION_ATTR
            THEN <<Ev("AvattoTempCalibration_bus", "set_value",
                      <<IF dev.manufacturer \in AvattoTenths THEN Div(value, 10) ELSE value>>)>>
            ELSE <<>>
        rest ==
            IF attrid = AVATTO_CHILD_LOCK_ATTR
            THEN <<Ev("ui_bus", "child_lock_change", <<value>>),
                   Ev("thermostat_onoff_bus", "child_lock_change", <<value>>)>>
            ELSE IF attrid = AVATTO_MODE_ATTR
            THEN <<Ev("thermostat_bus", "mode_change", <<value>>)>>
            ELSE IF attrid = AVATTO_HEAT_STATE_ATTR
            THEN IF dev.manufacturer = "_TZE200_g9a3awaj"
                 THEN <<Ev("thermostat_bus", "state_change", <<value>>)>>
                 ELSE <<Ev("thermostat_bus", "state_change", <<Not(value)>>)>>
            ELSE IF attrid = BEOK_HEAT_STATE_ATTR
            THEN <<Ev("thermostat_bus", "state_change", <<value>>)>>
            ELSE IF attrid = AVATTO_SYSTEM_MODE_ATTR
            THEN <<Ev("thermostat_bus", "system_mode_change", <<value>>)>>
            ELSE <<>>
    IN  direct \o calibration \o rest

\* AvattoThermostat.map_attribute; DIRECT_MAPPING_ATTRS holds
\* occupied_heating_setpoint alone, with one converter per group of SKUs.
AvattoThermostat_map_attribute(dev, c, attribute, value) ==
    IF attribute = "occupied_heating_setpoint"
    THEN MapDict(One(AVATTO_TARGET_TEMP_ATTR,
                     IF dev.manufacturer \in AvattoTenths
                     THEN PyRound(Div(value, 10)) ELSE PyRound(Div(value, 100))), c)
    ELSE IF attribute = "operation_preset" /\ value = Num(1)
    THEN MapDict(One(AVATTO_MODE_ATTR, Num(1)), c)
    ELSE IF attribute = "operation_preset" /\ value = Num(2)
    THEN MapDict(One(AVATTO_MODE_ATTR, Num(0)), c)
    ELSE IF attribute \in {"programing_oper_mode", "occupancy"}
            /\ OccupancyMode(c, attribute, value) # None
    THEN MapDict(One(AVATTO_MODE_ATTR, OccupancyMode(c, attribute, value)), c)
    ELSE IF attribute = "system_mode"
    THEN MapDict(One(AVATTO_SYSTEM_MODE_ATTR,
                     IF value = Num(SystemMode_Off) THEN Num(0) ELSE Num(1)), c)
    ELSE MapNone(c)

AvattoThermostat_mode_change_simple_schedule(c, ev) ==
    IF ev.args[1] = Num(0)
    THEN Handled(Put(Put(Put(c, "programing_oper_mode", Num(ProgrammingOperationMode_Simple)),
                         "occupancy", Num(Occupancy_Occupied)),
                     "operation_preset", Num(Preset_Manual)), <<>>)
    ELSE Handled(Put(Put(Put(c, "programing_oper_mode", Num(ProgrammingOperationMode_Simple)),
                         "occupancy", Num(Occupancy_Occupied)),
                     "operation_preset", Num(Preset_Schedule)), <<>>)

\* AvattoThermostat.mode_change.
AvattoThermostat_mode_change(c, ev) ==
    IF ev.args[1] = Num(0)
    THEN Handled(Put(Put(Put(c, "programing_oper_mode", Num(ProgrammingOperationMode_Simple)),
                         "occupancy", Num(Occupancy_Occupied)),
                     "operation_preset", Num(Preset_Manual)), <<>>)
    ELSE Handled(Put(Put(Put(c, "programing_oper_mode",
                             Num(ProgrammingOperationMode_Schedule_programming_mode)),
                         "occupancy", Num(Occupancy_Occupied)),
                     "operation_preset", Num(Preset_Schedule)), <<>>)

-----------------------------------------------------------------------------
\* ts0601_trv_rtitek.py

RTI_TARGET_TEMP_ATTR == 514

RTI_TEMPERATURE_ATTR == 515

RTI_MODE_ATTR == 1025

RTI_CHILD_LOCK_ATTR == 268

RTI_TEMP_CALIBRATION_ATTR == 613

RTI_MIN_TEMPERATURE_ATTR == 527

RTI_MAX_TEMPERATURE_ATTR == 528

RTI_WINDOW_DETECT_ATTR == 264

RTI_BOOST_ATTR == 260

RTI_BOOST_COUNTDOWN_ATTR == 517

RTI_VALVE_POSITION_ATTR == 614

RTI_VALVE_STATE_ATTR == 1030

RTI_BATTERY_ATTR == 525

RTI_SOFT_VER_ATTR == 662

\* RtiManufCluster.DIRECT_MAPPED_ATTRS applied to a reported value.
RtiManufCluster_DIRECT_MAPPED_ATTRS(value) ==
    (RTI_TEMPERATURE_ATTR :> <<"local_temperature", Mul(value, 10)>>)
    @@ (RTI_TARGET_TEMP_ATTR :> <<"occupied_heating_setpoint", Mul(value, 10)>>)
    @@ (RTI_TEMP_CALIBRATION_ATTR :> <<"local_temperature_calibration", Mul(value, 10)>>)
    @@ (RTI_MIN_TEMPERATURE_ATTR :> <<"min_heat_setpoint_limit", Mul(value, 10)>>)
    @@ (RTI_MAX_TEMPERATURE_ATTR :> <<"max_heat_setpoint_limit", Mul(value, 10)>>)
    @@ (RTI_VALVE_POSITION_ATTR :> <<"valve_position", Mul(value, 10)>>)

\* A handler that decodes the end of a boost as a return to the schedule.
RtiManufCluster_update_attribute_boost_end(attrid, value) ==
    LET direct(mapped) ==
            IF attrid \in DOMAIN mapped /\ ~Geq(value, Num(60000))
            THEN <<Ev("thermostat_bus", "temperature_change", mapped[attrid])>>
            ELSE <<>>
        rest ==
            IF attrid = RTI_WINDOW_DETECT_ATTR
            THEN <<Ev("RtiWindowDetection_bus", "set_value", <<value>>)>>
            ELSE IF attrid = RTI_CHILD_LOCK_ATTR
            THEN <<Ev("ui_bus", "child_lock_change", <<value>>),
                   Ev("thermostat_onoff_bus", "child_lock_change", <<value>>)>>
            ELSE IF attrid = RTI_BOOST_ATTR
            THEN IF value = Num(1)
                 THEN <<Ev("thermostat_bus", "mode_change", <<Num(5)>>)>>
                 ELSE <<Ev("thermostat_bus", "mode_change", <<Num(0)>>)>>
            ELSE IF attrid = RTI_MODE_ATTR
            THEN <<Ev("thermostat_bus", "mode_change", <<value>>)>>
            ELSE IF attrid = RTI_VALVE_POSITION_ATTR
            THEN <<Ev("RtiValvePosition_bus", "set_value", <<Div(value, 10)>>)>>
            ELSE IF attrid = RTI_VALVE_STATE_ATTR
            THEN <<Ev("thermostat_bus", "state_change", <<value>>)>>
            ELSE IF attrid = RTI_TEMP_CALIBRATION_ATTR
            THEN <<Ev("RtiTempCalibration_bus", "set_value", <<Div(value, 10)>>)>>
            ELSE IF attrid = RTI_BOOST_COUNTDOWN_ATTR
            THEN <<Ev("RtiBoostCountdown_bus", "set_value", <<value>>)>>
            ELSE IF attrid = RTI_BATTERY_ATTR
            THEN <<Ev("battery_bus", "battery_change", <<value>>)>>
            ELSE IF attrid = RTI_MIN_TEMPERATURE_ATTR
            THEN <<Ev("RtiMinTemp_bus", "set_value", <<Div(value, 10)>>)>>
            ELSE IF attrid = RTI_MAX_TEMPERATURE_ATTR
            THEN <<Ev("RtiMaxTemp_bus", "set_value", <<Div(value, 10)>>)>>
            ELSE IF attrid = RTI_SOFT_VER_ATTR
            THEN <<Ev("RtiSoftwareVersion_bus", "set_value", <<value>>)>>
            ELSE <<>>
    IN  direct(RtiManufCluster_DIRECT_MAPPED_ATTRS(value)) \o rest

\* RtiManufCluster._update_attribute: the bus events it publishes; a
\* direct-mapped value of 60000 or more is not forwarded to the thermostat.
RtiManufCluster_update_attribute(attrid, value) ==
    LET direct(mapped) ==
            IF attrid \in DOMAIN mapped /\ ~Geq(value, Num(60000))
            THEN <<Ev("thermostat_bus", "temperature_change", mapped[attrid])>>
            ELSE <<>>
        rest ==
            IF attrid = RTI_WINDOW_DETECT_ATTR
            THEN <<Ev("RtiWindowDetection_bus", "set_value", <<value>>)>>
            ELSE IF attrid = RTI_CHILD_LOCK_ATTR
            THEN <<Ev("ui_bus", "child_lock_change", <<value>>),
                   Ev("thermostat_onoff_bus", "child_lock_change", <<value>>)>>
            ELSE IF attrid = RTI_BOOST_ATTR
            THEN IF value = Num(1)
                 THEN <<Ev("thermostat_bus", "mode_change", <<Num(5)>>)>>
                 ELSE <<>>
            ELSE IF attrid = RTI_MODE_ATTR
            THEN <<Ev("thermostat_bus", "mode_change", <<value>>)>>
            ELSE IF attrid = RTI_VALVE_POSITION_ATTR
            THEN <<Ev("RtiValvePosition_bus", "set_value", <<Div(value, 10)>>)>>
            ELSE IF attrid = RTI_VALVE_STATE_ATTR
            THEN <<Ev("thermostat_bus", "state_change", <<value>>)>>
            ELSE IF attrid = RTI_TEMP_CALIBRATION_ATTR
            THEN <<Ev("RtiTempCalibration_bus", "set_value", <<Div(value, 10)>>)>>
            ELSE IF attrid = RTI_BOOST_COUNTDOWN_ATTR
            THEN <<Ev("RtiBoostCountdown_bus", "set_value", <<value>>)>>
            ELSE IF attrid = RTI_BATTERY_ATTR
            THEN <<Ev("battery_bus", "battery_change", <<value>>)>>
            ELSE IF attrid = RTI_MIN_TEMPERATURE_ATTR
            THEN <<Ev("RtiMinTemp_bus", "set_value", <<Div(value, 10)>>)>>
            ELSE IF attrid = RTI_MAX_TEMPERATURE_ATTR
            THEN <<Ev("RtiMaxTemp_bus", "set_value", <<Div(value, 10)>>)>>
            ELSE IF attrid = RTI_SOFT_VER_ATTR
            THEN <<Ev("RtiSoftwareVersion_bus", "set_value", <<value>>)>>
            ELSE <<>>
    IN  direct(RtiManufCluster_DIRECT_MAPPED_ATTRS(value)) \o rest

\* RtiThermostat.DIRECT_MAPPING_ATTRS applied to a written value.
RtiThermostat_DIRECT_MAPPING_ATTRS(value) ==
    ("min_heat_setpoint_limit" :> <<RTI_MIN_TEMPERATURE_ATTR, PyRound(Div(value, 10))>>)
    @@ ("max_heat_setpoint_limit" :> <<RTI_MAX_TEMPERATURE_ATTR, PyRound(Div(value, 10))>>)
    @@ ("local_temperature_calibration" :> <<RTI_TEMP_CALIBRATION_ATTR, Div(value, 10)>>)
    @@ ("occupied_heating_setpoint" :> <<RTI_TARGET_TEMP_ATTR, Div(value, 10)>>)
    @@ ("valve_position" :> <<RTI_VALVE_POSITION_ATTR, Div(value, 10)>>)

\* RtiThermostat.map_attribute; the mode byte of the programing_oper_mode /
\* occupancy branch is the reverse of OccupancyMode's.
RtiThermostat_map_attribute(c, attribute, value) ==
    LET map(mapping) ==
            IF attribute \in DOMAIN mapping
            THEN MapDict(One(mapping[attribute][1], mapping[attribute][2]), c)
            ELSE IF attribute = "operation_preset" /\ value = Num(1)
            THEN MapDict((RTI_MODE_ATTR :> Num(0)) @@ (RTI_BOOST_ATTR :> Num(0)), c)
            ELSE IF attribute = "operation_preset" /\ value = Num(2)
            THEN MapDict((RTI_MODE_ATTR :> Num(1)) @@ (RTI_BOOST_ATTR :> Num(0)), c)
            ELSE IF attribute = "operation_preset" /\ value = Num(5)
            THEN MapDict(One(RTI_BOOST_ATTR, Num(1)), c)
            ELSE IF attribute \in {"programing_oper_mode", "occupancy"}
                    /\ OccupancyMode(c, attribute, value) # None
            THEN MapDict(One(RTI_MODE_ATTR, Not(OccupancyMode(c, attribute, value))), c)
            ELSE IF attribute = "system_mode"
            THEN MapDict(One(RTI_MODE_ATTR,
                             IF value = Num(SystemMode_Off) THEN Num(2) ELSE Num(0)), c)
            ELSE MapNone(c)
    IN  map(RtiThermostat_DIRECT_MAPPING_ATTRS(value))

\* RtiThermostat.mode_change.
RtiThermostat_mode_change(c, ev) ==
    LET value == ev.args[1]
        update(operation_preset, prog_mode) ==
            Handled(Put(Put(Put(Put(c, "programing_oper_mode", Num(prog_mode)),
                                "occupancy", Num(Occupancy_Occupied)),
                            "operation_preset", Num(operation_preset)),
                        "system_mode",
                        IF value = Num(2) THEN Num(SystemMode_Off) ELSE Num(SystemMode_Heat)),
                    <<>>)
    IN  IF value \in {Num(1), Num(2), Num(3)}
        THEN update(Preset_Manual, ProgrammingOperationMode_Simple)
        ELSE IF value = Num(5)
        THEN update(Preset_Boost, ProgrammingOperationMode_Simple)
        ELSE update(Preset_Schedule, ProgrammingOperationMode_Schedule_programming_mode)

-----------------------------------------------------------------------------
\* ts0601_trv_rtitek2.py

RTI2_TARGET_TEMP_ATTR == 514

RTI2_TEMPERATURE_ATTR == 515

RTI2_MODE_ATTR == 1025

RTI2_CHILD_LOCK_ATTR == 268

RTI2_TEMP_CALIBRATION_ATTR == 613

RTI2_MIN_TEMPERATURE_ATTR == 527

RTI2_MAX_TEMPERATURE_ATTR == 528

RTI2_WINDOW_DETECT_ATTR == 264

RTI2_VALVE_POSITION_ATTR == 620

RTI2_VALVE_STATE_ATTR == 1030

RTI2_BATTERY_ATTR == 525

\* Rti2ManufCluster.DIRECT_MAPPED_ATTRS applied to a reported value.
Rti2ManufCluster_DIRECT_MAPPED_ATTRS(value) ==
    (RTI2_TEMPERATURE_ATTR :> <<"local_temperature", Mul(value, 10)>>)
    @@ (RTI2_TARGET_TEMP_ATTR :> <<"occupied_heating_setpoint", Mul(value, 10)>>)
    @@ (RTI2_TEMP_CALIBRATION_ATTR :> <<"local_temperature_calibration", Mul(value, 10)>>)
    @@ (RTI2_MIN_TEMPERATURE_ATTR :> <<"min_heat_setpoint_limit", Mul(value, 10)>>)
    @@ (RTI2_MAX_TEMPERATURE_ATTR :> <<"max_heat_setpoint_limit", Mul(value, 10)>>)
    @@ (RTI2_VALVE_POSITION_ATTR :> <<"valve_position", Mul(value, 10)>>)

\* Rti2ManufCluster._update_attribute: the bus events it publishes; a
\* direct-mapped value of 60000 or more is not forwarded to the thermostat.
Rti2ManufCluster_update_attribute(attrid, value) ==
    LET direct(mapped) ==
            IF attrid \in DOMAIN mapped /\ ~Geq(value, Num(60000))
            THEN <<Ev("thermostat_bus", "temperature_change", mapped[attrid])>>
            ELSE <<>>
        rest ==
            IF attrid = RTI2_WINDOW_DETECT_ATTR
            THEN <<Ev("Rti2WindowDetection_bus", "set_value", <<value>>)>>
            ELSE IF attrid = RTI2_CHILD_LOCK_ATTR
            THEN <<Ev("ui_bus", "child_lock_change", <<value>>),
                   Ev("thermostat_onoff_bus", "child_lock_change", <<value>>)>>
            ELSE IF attrid = RTI2_MODE_ATTR
            THEN <<Ev("thermostat_bus", "mode_change", <<value>>)>>
            ELSE IF attrid = RTI2_VALVE_POSITION_ATTR
            THEN <<Ev("Rti2ValvePosition_bus", "set_value", <<Div(value, 10)>>)>>
            ELSE IF attrid = RTI2_VALVE_STATE_ATTR
            THEN <<Ev("thermostat_bus", "state_change", <<value>>)>>
            ELSE IF attrid = RTI2_TEMP_CALIBRATION_ATTR
            THEN <<Ev("Rti2TempCalibration_bus", "set_value", <<Div(value, 10)>>)>>
            ELSE IF attrid = RTI2_BATTERY_ATTR
            THEN <<Ev("battery_bus", "battery_change", <<value>>)>>
            ELSE IF attrid = RTI2_MIN_TEMPERATURE_ATTR
            THEN <<Ev("Rti2MinTemp_bus", "set_value", <<Div(value, 10)>>)>>
            ELSE IF attrid = RTI2_MAX_TEMPERATURE_ATTR
            THEN <<Ev("Rti2MaxTemp_bus", "set_value", <<Div(value, 10)>>)>>
            ELSE <<>>
    IN  direct(Rti2ManufCluster_DIRECT_MAPPED_ATTRS(value)) \o rest

\* Rti2Thermostat.DIRECT_MAPPING_ATTRS applied to a written value.
Rti2Thermostat_DIRECT_MAPPING_ATTRS(value) ==
    ("min_heat_setpoint_limit" :> <<RTI2_MIN_TEMPERATURE_ATTR, PyRound(Div(value, 10))>>)
    @@ ("max_heat_setpoint_limit" :> <<RTI2_MAX_TEMPERATURE_ATTR, PyRound(Div(value, 10))>>)
    @@ ("local_temperature_calibration" :> <<RTI2_TEMP_CALIBRATION_ATTR, Div(value, 10)>>)
    @@ ("occupied_heating_setpoint" :> <<RTI2_TARGET_TEMP_ATTR, Div(value, 10)>>)
    @@ ("valve_position" :> <<RTI2_VALVE_POSITION_ATTR, Div(value, 10)>>)

\* Rti2Thermostat.map_attribute; the mode byte of the programing_oper_mode /
\* occupancy branch is the reverse of OccupancyMode's.
Rti2Thermostat_map_attribute(c, attribute, value) ==
    LET map(mapping) ==
            IF attribute \in DOMAIN mapping
            THEN MapDict(One(mapping[attribute][1], mapping[attribute][2]), c)
            ELSE IF attribute = "operation_preset" /\ value = Num(1)
            THEN MapDict(One(RTI2_MODE_ATTR, Num(0)), c)
            ELSE IF attribute = "operation_preset" /\ value = Num(2)
            THEN MapDict(One(RTI2_MODE_ATTR, Num(1)), c)
            ELSE IF attribute \in {"programing_oper_mode", "occupancy"}
                    /\ OccupancyMode(c, attribute, value) # None
            THEN MapDict(One(RTI2_MODE_ATTR, Not(OccupancyMode(c, attribute, value))), c)
            ELSE IF attribute = "system_mode"
            THEN MapDict(One(RTI2_MODE_ATTR,
                             IF value = Num(SystemMode_Off) THEN Num(2) ELSE Num(0)), c)
            ELSE MapNone(c)
    IN  map(Rti2Thermostat_DIRECT_MAPPING_ATTRS(value))

\* Rti2Thermostat.mode_change.
Rti2Thermostat_mode_change(c, ev) ==
    LET value == ev.args[1]
        update(operation_preset, prog_mode) ==
            Handled(Put(Put(Put(Put(c, "programing_oper_mode", Num(prog_mode)),
                                "occupancy", Num(Occupancy_Occupied)),
                            "operation_preset", Num(operation_preset)),
                        "system_mode",
                        IF value = Num(2) THEN Num(SystemMode_Off) ELSE Num(SystemMode_Heat)),
                    <<>>)
    IN  IF value \in {Num(1), Num(2), Num(3)}
        THEN update(Preset_Manual, ProgrammingOperationMode_Simple)
        ELSE update(Preset_Schedule, ProgrammingOperationMode_Schedule_programming_mode)

-----------------------------------------------------------------------------
\* ts0601_trv_zonnsmart.py

ZONNSMART_CHILD_LOCK_ATTR == 296

ZONNSMART_WINDOW_DETECT_ATTR == 264

ZONNSMART_TARGET_TEMP_ATTR == 528

ZONNSMART_TEMPERATURE_ATTR == 536

ZONNSMART_BATTERY_ATTR == 547

ZONNSMART_MODE_ATTR == 1026

ZONNSMART_HEATING_STOPPING == 363

ZONNSMART_BOOST_TIME_ATTR == 613

ZONNSMART_UPTIME_TIME_ATTR == 36

\* ZONNSMARTManufCluster.DIRECT_MAPPED_ATTRS applied to a reported value.
ZONNSMARTManufCluster_DIRECT_MAPPED_ATTRS(value) ==
    (ZONNSMART_TEMPERATURE_ATTR :> <<"local_temperature", Mul(value, 10)>>)
    @@ (ZONNSMART_TARGET_TEMP_ATTR :> <<"occupied_heating_setpoint", Mul(value, 10)>>)
    @@ (ZONNSMART_BOOST_TIME_ATTR :> <<"boost_duration_seconds", value>>)
    @@ (ZONNSMART_UPTIME_TIME_ATTR :> <<"uptime_duration_hours", value>>)

\* ZONNSMARTManufCluster._update_attribute: one if / elif chain; state_change
\* gets the boolean value == 0.
ZONNSMARTManufCluster_update_attribute(attrid, value) ==
    LET published(mapped) ==
            IF attrid \in DOMAIN mapped
            THEN <<Ev("thermostat_bus", "temperature_change", mapped[attrid])>>
            ELSE IF attrid = ZONNSMART_MODE_ATTR
            THEN <<Ev("thermostat_bus", "mode_change", <<value>>)>>
            ELSE IF attrid = ZONNSMART_HEATING_STOPPING
            THEN <<Ev("thermostat_bus", "state_change", <<Not(value)>>),
                   Ev("thermostat_bus", "mode_change2", <<value>>)>>
            ELSE IF attrid = ZONNSMART_CHILD_LOCK_ATTR
            THEN <<Ev("ui_bus", "child_lock_change",
                      <<IF value = Num(0) THEN Num(0) ELSE Num(1)>>),
                   Ev("thermostat_onoff_bus", "child_lock_change", <<value>>)>>
            ELSE IF attrid = ZONNSMART_BATTERY_ATTR
            THEN <<Ev("battery_bus", "battery_change", <<value>>)>>
            ELSE <<>>
    IN  published(ZONNSMARTManufCluster_DIRECT_MAPPED_ATTRS(value))

\* temperature_change on ZONNSMARTThermostat: the cluster defines no
\* attribute of the two duration names, attributes_by_name raises KeyError
\* and the bus goes on.
ZONNSMARTThermostat_temperature_change(c, ev) ==
    IF ev.args[1] \in {"boost_duration_seconds", "uptime_duration_hours"}
    THEN Handled(c, <<>>)
    ELSE temperature_change(c, ev)

\* ZONNSMARTThermostat.DIRECT_MAPPING_ATTRS applied to a written value.
ZONNSMARTThermostat_DIRECT_MAPPING_ATTRS(value) ==
    ("occupied_heating_setpoint" :> <<ZONNSMART_TARGET_TEMP_ATTR, PyRound(Div(value, 10))>>)
    @@ ("operation_preset" :> <<ZONNSMART_MODE_ATTR, value>>)
    @@ ("boost_duration_seconds" :> <<ZONNSMART_BOOST_TIME_ATTR, value>>)

ZONNSMARTThermostat_map_attribute(c, attribute, value) ==
    LET system_mode == IF attribute = "system_mode" THEN value
                       ELSE GetD(c, "system_mode", Num(SystemMode_Heat))
        oper_mode == IF attribute = "system_mode"
                     THEN GetD(c, "programing_oper_mode", Num(ProgrammingOperationMode_Simple))
                     ELSE value
        map(mapping) ==
            IF attribute \in DOMAIN mapping
            THEN MapDict(One(mapping[attribute][1], mapping[attribute][2]), c)
            ELSE IF attribute \notin {"system_mode", "programing_oper_mode"}
            THEN MapNone(c)
            ELSE IF system_mode = Num(SystemMode_Off)
            THEN MapDict(One(ZONNSMART_HEATING_STOPPING, Num(1)), c)
            ELSE IF system_mode = Num(SystemMode_Heat)
                    /\ oper_mode = Num(ProgrammingOperationMode_Schedule_programming_mode)
            THEN MapDict(One(ZONNSMART_MODE_ATTR, Num(0)), c)
            ELSE IF system_mode = Num(SystemMode_Heat)
                    /\ oper_mode = Num(ProgrammingOperationMode_Simple)
            THEN MapDict(One(ZONNSMART_MODE_ATTR, Num(1)), c)
            ELSE MapNone(c)
    IN  map(ZONNSMARTThermostat_DIRECT_MAPPING_ATTRS(value))

\* A mode decoder that leaves system_mode as it is.
ZONNSMARTThermostat_mode_change_keep_system_mode(c, ev) ==
    Handled(Put(c, "programing_oper_mode",
                IF ev.args[1] = Num(0)
                THEN Num(ProgrammingOperationMode_Schedule_programming_mode)
                ELSE Num(ProgrammingOperationMode_Simple)), <<>>)

\* ZONNSMARTThermostat.mode_change.
ZONNSMARTThermostat_mode_change(c, ev) ==
    Handled(Put(Put(c, "system_mode", Num(SystemMode_Heat)),
                "programing_oper_mode",
                IF ev.args[1] = Num(0)
                THEN Num(ProgrammingOperationMode_Schedule_programming_mode)
                ELSE Num(ProgrammingOperationMode_Simple)), <<>>)

\* ZONNSMARTThermostat.mode_change2.
ZONNSMARTThermostat_mode_change2(c, ev) ==
    IF ev.args[1] = Num(1)
    THEN Handled(Put(c, "system_mode", Num(SystemMode_Off)), <<>>)
    ELSE Handled(Put(c, "system_mode", Num(SystemMode_Heat)), <<>>)

-----------------------------------------------------------------------------
\* ts0601_temperature.py

TUYA_TEMPERATURE_ATTR == 513

TUYA_HUMIDITY_ATTR == 514

TUYA_BATTERY_ATTR == 516

TUYA_MAX_TEMP == 522

TUYA_MIN_TEMP == 523

TUYA_ALARM_TEMP == 1038

TUYA_MAX_HUMIDITY == 524

TUYA_MIN_HUMIDITY == 525

TUYA_ALARM_HUMIDITY == 1039

TUYA_TEMP_SENSIVITY == 531

TUYA_HUMIDITY_SENSIVITY == 532

TUYA_TEMP_REPORTING == 529

TUYA_HUMIDITY_REPORTING == 530

TUYA_TEMP_UNIT == 1033

\* An alarm decoder that raises both inputs for an override.
TuyaSensorAlarm_both(under, over, value) ==
    <<Ev(under, "set_value", <<IF value \in {Num(0), Num(1)} THEN Num(1) ELSE Num(0)>>),
      Ev(over, "set_value", <<IF value = Num(1) THEN Num(1) ELSE Num(0)>>)>>

\* The two set_value events of an alarm report: 0 is an underride, 1 an
\* override, anything else clears both.
TuyaSensorAlarm(under, over, value) ==
    <<Ev(under, "set_value", <<IF value = Num(0) THEN Num(1) ELSE Num(0)>>),
      Ev(over, "set_value", <<IF value = Num(1) THEN Num(1) ELSE Num(0)>>)>>

\* TuyaSensorManufCluster._update_attribute: the bus events it publishes.
TuyaSensorManufCluster_update_attribute(attrid, value) ==
    IF attrid = TUYA_TEMPERATURE_ATTR
    THEN <<Ev("TuyaSensorTemperature_bus", "set_value", <<Div(value, 10)>>)>>
    ELSE IF attrid = TUYA_HUMIDITY_ATTR
    THEN <<Ev("TuyaSensorRelativeHumidity_bus", "set_value", <<value>>)>>
    ELSE IF attrid = TUYA_BATTERY_ATTR
    THEN <<Ev("battery_bus", "battery_change", <<value>>)>>
    ELSE IF attrid = TUYA_MAX_TEMP
    THEN <<Ev("TuyaMaxTemperature_bus", "set_value", <<value>>)>>
    ELSE IF attrid = TUYA_MIN_TEMP
    THEN <<Ev("TuyaMinTemperature_bus", "set_value", <<value>>)>>
    ELSE IF attrid = TUYA_ALARM_TEMP
    THEN TuyaSensorAlarm("TuyaAlarmTempUnder_bus", "TuyaAlarmTempOver_bus", value)
    ELSE IF attrid = TUYA_MAX_HUMIDITY
    THEN <<Ev("TuyaMaxHumidity_bus", "set_value", <<value>>)>>
    ELSE IF attrid = TUYA_MIN_HUMIDITY
    THEN <<Ev("TuyaMinHumidity_bus", "set_value", <<value>>)>>
    ELSE IF attrid = TUYA_ALARM_HUMIDITY
    THEN TuyaSensorAlarm("TuyaAlarmHumidityUnder_bus", "TuyaAlarmHumidityOver_bus", value)
    ELSE IF attrid = TUYA_TEMP_SENSIVITY
    THEN <<Ev("TuyaTempSensivity_bus", "set_value", <<value>>)>>
    ELSE IF attrid = TUYA_HUMIDITY_SENSIVITY
    THEN <<Ev("TuyaHumiditySensivity_bus", "set_value", <<value>>)>>
    ELSE IF attrid = TUYA_TEMP_REPORTING
    THEN <<Ev("TuyaTemperatureReporting_bus", "set_value", <<value>>)>>
    ELSE IF attrid = TUYA_HUMIDITY_REPORTING
    THEN <<Ev("TuyaHumidityReporting_bus", "set_value", <<value>>)>>
    ELSE IF attrid = TUYA_TEMP_UNIT
    THEN <<Ev("tuya_onoff_bus", "unit_change", <<value>>)>>
    ELSE <<>>

-----------------------------------------------------------------------------
\* The device: the clusters of the quirk's replacement and the listeners
\* they register on the device's buses.

Adapters ==
    {"saswell", "maxsmart", "electsmart", "me167", "etop", "avatto", "rtitek", "rtitek2",
     "zonnsmart", "sensor"}

\* The SKUs of each adapter whose code paths differ.
Manufacturers(ad) ==
    CASE ad = "saswell" -> {"_TZE200_c88teujp"}
      [] ad = "maxsmart" -> {"_TZE200_qc4fpmcn", "_TZE200_chyvmhay"}
      [] ad = "electsmart" -> {"_TZE204_edl8pz1k"}
      [] ad = "me167" -> {"_TZE200_bvu2wnxz"}
      [] ad = "etop" -> {"_TZE200_0hg58wyk"}
      [] ad = "avatto" ->
            {"_TZE200_ye5jkfsb", "_TZE200_aoclfnxz", "_TZE200_2ekuz3dz", "_TZE200_g9a3awaj"}
      [] ad = "rtitek" -> {"_TZE200_a4bpgplm"}
      [] ad = "rtitek2" -> {"_TZE200_bvrlmajk"}
      [] ad = "zonnsmart" -> {"_TZE200_7yoranx2"}
      [] ad = "sensor" -> {"_TZE200_bq5c8xfe"}

\* The synthetic clusters of the replacement: the Thermostat cluster, the
\* OnOff clusters, the AnalogOutput clusters, the other clusters with a bus
\* of their own, the PowerConfiguration and the UserInterface cluster.
Replacement(ad) ==
    CASE ad = "saswell" ->
            [thermostat |-> <<"SaswellThermostatCluster">>,
             onoff |-> <<"SaswellWindowDectection", "SaswellChildLock",
                         "SaswellAntiFreezeDectection", "SaswellLimescaleProtectionDectection",
                         "SaswellScheduleModeDectection", "SaswellAwayModeDectection">>,
             analog |-> <<"SaswellTempCalibration">>,
             other |-> <<>>,
             power |-> <<"SaswellPowerConfigurationCluster">>,
             ui |-> <<>>]
      [] ad = "maxsmart" ->
            [thermostat |-> <<"MaxsmartThermostat">>,
             onoff |-> <<"MaxsmartChildLock", "MaxsmartLocalTempUpdate">>,
             analog |-> <<"MaxsmartAwayYear", "MaxsmartAwayMonth", "MaxsmartAwayDay",
                          "MaxsmartAwayHour", "MaxsmartAwayMinute", "MaxsmartAwayTemperature",
                          "MaxsmartAwayOperTime", "MaxsmartEcoTemperature",
                          "MaxsmartComfortTemperature", "MaxsmartWindowDetectTemperature",
                          "MaxsmartWindowDetectTime", "MaxsmartBoostCountdown",
                          "MaxsmartTempCalibration">>,
             other |-> <<"MaxsmartWindowDetection">>,
             power |-> <<"TuyaPowerConfigurationCluster">>,
             ui |-> <<"MaxsmartUserInterface">>]
      [] ad = "electsmart" ->
            [thermostat |-> <<"ElectsmartThermostat">>,
             onoff |-> <<"ElectsmartChildLock">>,
             analog |-> <<"ElectsmartTempCalibration">>,
             other |-> <<>>,
             power |-> <<"TuyaPowerConfigurationCluster">>,
             ui |-> <<"ElectsmartUserInterface">>]
      [] ad = "me167" ->
            [thermostat |-> <<"ME167Thermostat">>,
             onoff |-> <<"ME167ChildLock", "ME167FrostProtection">>,
             analog |-> <<"ME167TempCalibration">>,
             other |-> <<>>,
             power |-> <<"TuyaPowerConfigurationCluster">>,
             ui |-> <<"ME167UserInterface">>]
      [] ad = "etop" ->
            [thermostat |-> <<"EtopThermostat">>,
             onoff |-> <<"EtopWindowDectection">>,
             analog |-> <<>>,
             other |-> <<>>,
             power |-> <<"TuyaPowerConfigurationCluster">>,
             ui |-> <<"EtopUserInterface">>]
      [] ad = "avatto" ->
            [thermostat |-> <<"AvattoThermostat">>,
             onoff |-> <<"AvattoChildLock">>,
             analog |-> <<"AvattoTempCalibration">>,
             other |-> <<>>,
             power |-> <<"TuyaPowerConfigurationCluster">>,
             ui |-> <<"AvattoUserInterface">>]
      [] ad = "rtitek" ->
            [thermostat |-> <<"RtiThermostat">>,
             onoff |-> <<"RtiChildLock">>,
             analog |-> <<"RtiValvePosition", "RtiTempCalibration", "RtiBoostCountdown",
                          "RtiMinTemp", "RtiMaxTemp">>,
             other |-> <<"RtiWindowDetection">>,
             power |-> <<"TuyaPowerConfigurationCluster">>,
             ui |-> <<"RtiUserInterface">>]
      [] ad = "rtitek2" ->
            [thermostat |-> <<"Rti2Thermostat">>,
             onoff |-> <<"Rti2ChildLock">>,
             analog |-> <<"Rti2ValvePosition", "Rti2TempCalibration", "Rti2MinTemp",
                          "Rti2MaxTemp">>,
             other |-> <<"Rti2WindowDetection">>,
             power |-> <<"TuyaPowerConfigurationCluster">>,
             ui |-> <<"Rti2UserInterface">>]
      [] ad = "zonnsmart" ->
            [thermostat |-> <<"ZONNSMARTThermostat">>,
             onoff |-> <<"ZONNSMARTChildLock">>,
             analog |-> <<>>,
             other |-> <<>>,
             power |-> <<"TuyaPowerConfigurationCluster">>,
             ui |-> <<"ZONNSMARTUserInterface">>]
      [] ad = "sensor" ->
            [thermostat |-> <<>>,
             onoff |-> <<"TuyaTempUnit">>,
             analog |-> <<"TuyaMaxTemperature", "TuyaMinTemperature", "TuyaMaxHumidity",
                          "TuyaMinHumidity", "TuyaTempSensivity", "TuyaHumiditySensivity",
                          "TuyaTemperatureReporting", "TuyaHumidityReporting",
                          "TuyaSensorTemperature", "TuyaSensorRelativeHumidity">>,
             other |-> <<"TuyaAlarmTempUnder", "TuyaAlarmTempOver", "TuyaAlarmHumidityUnder",
                         "TuyaAlarmHumidityOver">>,
             power |-> <<"TuyaPowerConfigurationCluster2AAA">>,
             ui |-> <<>>]

Range(seq) == {seq[i] : i \in 1..Len(seq)}

Clusters(ad) ==
    LET r == Replacement(ad)
    IN  Range(r.thermostat \o r.onoff \o r.analog \o r.other \o r.power \o r.ui)

\* The CustomTuyaOnOff subclasses: the event each handles and the
\* manufacturer attribute its map_attribute returns for "on_off".
OnOffTable ==
    ("SaswellChildLock" :> <<"child_lock_change", SASWELL_CHILD_LOCK_ATTR>>)
    @@ ("SaswellWindowDectection" :> <<"window_detect_change", SASWELL_WINDOW_DETECT_ATTR>>)
    @@ ("SaswellAntiFreezeDectection" :> <<"anti_freeze_change", SASWELL_ANTI_FREEZE_ATTR>>)
    @@ ("SaswellLimescaleProtectionDectection" :>
            <<"limescale_protection_change", SASWELL_LIMESCALE_PROTECT_ATTR>>)
    @@ ("SaswellScheduleModeDectection" :> <<"schedule_mode_change", SASWELL_SCHEDULE_MODE_ATTR>>)
    @@ ("SaswellAwayModeDectection" :> <<"away_mode_change", SASWELL_AWAY_MODE_ATTR>>)
    @@ ("MaxsmartChildLock" :> <<"child_lock_change", MAXSMART_CHILD_LOCK_ATTR>>)
    @@ ("ElectsmartChildLock" :> <<"child_lock_change", ELECTSMART_CHILD_LOCK_ATTR>>)
    @@ ("ME167ChildLock" :> <<"child_lock_change", ME167_CHILD_LOCK_ATTR>>)
    @@ ("ME167FrostProtection" :> <<"frost_protection_change", ME167_FROST_PROTECTION>>)
    @@ ("EtopWindowDectection" :> <<"window_detect_func_change", ETOP_WINDOW_DETECT_FUNC_ATTR>>)
    @@ ("AvattoChildLock" :> <<"child_lock_change", AVATTO_CHILD_LOCK_ATTR>>)
    @@ ("RtiChildLock" :> <<"child_lock_change", RTI_CHILD_LOCK_ATTR>>)
    @@ ("Rti2ChildLock" :> <<"child_lock_change", RTI2_CHILD_LOCK_ATTR>>)
    @@ ("ZONNSMARTChildLock" :> <<"child_lock_change", ZONNSMART_CHILD_LOCK_ATTR>>)
    @@ ("TuyaTempUnit" :> <<"unit_change", TUYA_TEMP_UNIT>>)

\* The limits the Thermostat cluster's __init__ publishes to itself.
ThermostatInit(ad) ==
    CASE ad = "saswell" ->
            ("min_heat_setpoint_limit" :> Num(500)) @@ ("max_heat_setpoint_limit" :> Num(3000))
      [] ad = "maxsmart" ->
            ("min_heat_setpoint_limit" :> Num(MAXSMART_MIN_TEMPERATURE_VAL))
            @@ ("max_heat_setpoint_limit" :> Num(MAXSMART_MAX_TEMPERATURE_VAL))
      [] ad = "electsmart" ->
            ("min_heat_setpoint_limit" :> Num(ELECTSMART_MIN_TEMPERATURE_VAL))
            @@ ("max_heat_setpoint_limit" :> Num(ELECTSMART_MAX_TEMPERATURE_VAL))
      [] ad = "me167" ->
            ("min_heat_setpoint_limit" :> Num(ME167_MIN_TEMPERATURE_VAL * 100))
            @@ ("max_heat_setpoint_limit" :> Num(ME167_MAX_TEMPERATURE_VAL * 100))
      [] ad = "etop" ->
            ("min_heat_setpoint_limit" :> Num(ETOP_MIN_TEMPERATURE_VAL * 100))
            @@ ("max_heat_setpoint_limit" :> Num(ETOP_MAX_TEMPERATURE_VAL * 100))
      [] ad = "avatto" ->
            ("min_heat_setpoint_limit" :> Num(AVATTO_MIN_TEMPERATURE_VAL))
            @@ ("max_heat_setpoint_limit" :> Num(AVATTO_MAX_TEMPERATURE_VAL))
      [] OTHER -> EmptyDict

\* The attributes each AnalogOutput cluster's __init__ stores.
AnalogInit ==
    ("SaswellTempCalibration" :>
            (("description" :> "Temperature Calibration")
            @@ ("max_present_value" :> Num(6))
            @@ ("min_present_value" :> Num(-6))
            @@ ("resolution" :> Num(1))
            @@ ("application_type" :> Num(13 * 65536))
            @@ ("engineering_units" :> Num(62))))
    @@ ("MaxsmartAwayYear" :>
            (("description" :> "G01 Away Year start")
            @@ ("max_present_value" :> Num(9999))
            @@ ("resolution" :> Num(1))
            @@ ("application_type" :> Num(14 * 65536))
            @@ ("engineering_units" :> Num(67))))
    @@ ("MaxsmartAwayMonth" :>
            (("description" :> "G01 Away Month start")
            @@ ("max_present_value" :> Num(12))
            @@ ("min_present_value" :> Num(1))
            @@ ("resolution" :> Num(1))
            @@ ("application_type" :> Num(14 * 65536))
            @@ ("engineering_units" :> Num(68))))
    @@ ("MaxsmartAwayDay" :>
            (("description" :> "G01 Away Day start")
            @@ ("max_present_value" :> Num(31))
            @@ ("min_present_value" :> Num(1))
            @@ ("resolution" :> Num(1))
            @@ ("application_type" :> Num(14 * 65536))
            @@ ("engineering_units" :> Num(70))))
    @@ ("MaxsmartAwayHour" :>
            (("description" :> "G02 Away Hour start")
            @@ ("max_present_value" :> Num(23))
            @@ ("min_present_value" :> Num(0))
            @@ ("resolution" :> Num(1))
            @@ ("application_type" :> Num(14 * 65536))
            @@ ("engineering_units" :> Num(71))))
    @@ ("MaxsmartAwayMinute" :>
            (("description" :> "G02 Away Minute start")
            @@ ("max_present_value" :> Num(59))
            @@ ("min_present_value" :> Num(0))
            @@ ("resolution" :> Num(1))
            @@ ("application_type" :> Num(14 * 65536))
            @@ ("engineering_units" :> Num(72))))
    @@ ("MaxsmartAwayTemperature" :>
            (("description" :> "G03 Away Temperature")
            @@ ("max_present_value" :> Frac(MAXSMART_MAX_TEMPERATURE_VAL, 100))
            @@ ("min_present_value" :> Frac(MAXSMART_MIN_TEMPERATURE_VAL, 100))
            @@ ("resolution" :> Frac(5, 10))
            @@ ("application_type" :> Num(13 * 65536))
            @@ ("engineering_units" :> Num(62))))
    @@ ("MaxsmartAwayOperTime" :>
            (("description" :> "G04 Away Operating time(hours)")
            @@ ("max_present_value" :> Num(65535))
            @@ ("min_present_value" :> Num(1))
            @@ ("resolution" :> Num(1))
            @@ ("application_type" :> Num(14 * 65536))
            @@ ("engineering_units" :> Num(71))))
    @@ ("MaxsmartEcoTemperature" :>
            (("description" :> "G04 Eco Temperature")
            @@ ("max_present_value" :> Frac(MAXSMART_MAX_TEMPERATURE_VAL, 100))
            @@ ("resolution" :> Frac(5, 10))
            @@ ("application_type" :> Num(13 * 65536))
            @@ ("engineering_units" :> Num(62))))
    @@ ("MaxsmartComfortTemperature" :>
            (("description" :> "G04 Comfort Temperature")
            @@ ("max_present_value" :> Frac(MAXSMART_MAX_TEMPERATURE_VAL, 100))
            @@ ("min_present_value" :> Frac(MAXSMART_MIN_TEMPERATURE_VAL, 100))
            @@ ("resolution" :> Frac(5, 10))
            @@ ("application_type" :> Num(13 * 65536))
            @@ ("engineering_units" :> Num(62))))
    @@ ("MaxsmartWindowDetectTemperature" :>
            (("description" :> "G05 Window detect Temperature")
            @@ ("max_present_value" :> Frac(MAXSMART_MAX_TEMPERATURE_VAL, 100))
            @@ ("min_present_value" :> Frac(MAXSMART_MIN_TEMPERATURE_VAL, 100))
            @@ ("resolution" :> Frac(5, 10))
            @@ ("application_type" :> Num(13 * 65536))
            @@ ("engineering_units" :> Num(62))))
    @@ ("MaxsmartWindowDetectTime" :>
            (("description" :> "G05 Window detect Time")
            @@ ("max_present_value" :> Num(60))
            @@ ("min_present_value" :> Num(0))
            @@ ("resolution" :> Num(1))
            @@ ("application_type" :> Num(14 * 65536))
            @@ ("engineering_units" :> Num(72))))
    @@ ("MaxsmartBoostCountdown" :>
            (("description" :> "G06 Boost countdown")
            @@ ("max_present_value" :> Num(9999))
            @@ ("resolution" :> Num(1))
            @@ ("application_type" :> Num(14 * 65536))
            @@ ("engineering_units" :> Num(73))))
    @@ ("MaxsmartTempCalibration" :>
            (("description" :> "G07 Temperature calibration")
            @@ ("max_present_value" :> Frac(55, 10))
            @@ ("min_present_value" :> Frac(-55, 10))
            @@ ("resolution" :> Frac(1, 10))
            @@ ("application_type" :> Num(13 * 65536))
            @@ ("engineering_units" :> Num(62))))
    @@ ("ElectsmartTempCalibration" :>
            (("description" :> "Temperature Calibration")
            @@ ("max_present_value" :> Num(10))
            @@ ("min_present_value" :> Num(-10))
            @@ ("resolution" :> Frac(1, 10))
            @@ ("application_type" :> Num(13 * 65536))
            @@ ("engineering_units" :> Num(62))))
    @@ ("ME167TempCalibration" :>
            (("description" :> "Temperature Calibration")
            @@ ("max_present_value" :> Num(10))
            @@ ("min_present_value" :> Num(-10))
            @@ ("resolution" :> Num(1))
            @@ ("application_type" :> Num(13 * 65536))
            @@ ("engineering_units" :> Num(62))))
    @@ ("AvattoTempCalibration" :>
            (("description" :> "Temperature Calibration")
            @@ ("max_present_value" :> Num(10))
            @@ ("min_present_value" :> Num(-10))
            @@ ("resolution" :> Frac(1, 10))
            @@ ("application_type" :> Num(13 * 65536))
            @@ ("engineering_units" :> Num(62))))
    @@ ("RtiValvePosition" :>
            (("description" :> "Valve Position")
            @@ ("max_present_value" :> Num(100))
            @@ ("min_present_value" :> Num(0))
            @@ ("resolution" :> Frac(1, 10))
            @@ ("application_type" :> Num(4 * 65536))
            @@ ("engineering_units" :> Num(98))))
    @@ ("RtiTempCalibration" :>
            (("description" :> "Temperature Calibration")
            @@ ("max_present_value" :> Num(2))
            @@ ("min_present_value" :> Num(-2))
            @@ ("resolution" :> Frac(1, 10))
            @@ ("application_type" :> Num(13 * 65536))
            @@ ("engineering_units" :> Num(62))))
    @@ ("RtiBoostCountdown" :>
            (("description" :> "Boost Countdown")
            @@ ("max_present_value" :> Num(9999))
            @@ ("min_present_value" :> Num(0))
            @@ ("resolution" :> Num(1))
            @@ ("application_type" :> Num(12 * 65536))
            @@ ("engineering_units" :> Num(73))))
    @@ ("RtiMinTemp" :>
            (("description" :> "Min Temperature")
            @@ ("max_present_value" :> Num(15))
            @@ ("min_present_value" :> Num(5))
            @@ ("resolution" :> Frac(1, 10))
            @@ ("application_type" :> Num(13 * 65536))
            @@ ("engineering_units" :> Num(62))))
    @@ ("RtiMaxTemp" :>
            (("description" :> "Max Temperature")
            @@ ("max_present_value" :> Num(35))
            @@ ("min_present_value" :> Num(15))
            @@ ("resolution" :> Frac(1, 10))
            @@ ("application_type" :> Num(13 * 65536))
            @@ ("engineering_units" :> Num(62))))
    @@ ("Rti2ValvePosition" :>
            (("description" :> "Valve Position")
            @@ ("max_present_value" :> Num(100))
            @@ ("min_present_value" :> Num(0))
            @@ ("resolution" :> Num(1))
            @@ ("application_type" :> Num(4 * 65536))
            @@ ("engineering_units" :> Num(98))))
    @@ ("Rti2TempCalibration" :>
            (("description" :> "Temperature Calibration")
            @@ ("max_present_value" :> Num(10))
            @@ ("min_present_value" :> Num(-10))
            @@ ("resolution" :> Frac(1, 10))
            @@ ("application_type" :> Num(13 * 65536))
            @@ ("engineering_units" :> Num(62))))
    @@ ("Rti2MinTemp" :>
            (("description" :> "Min Temperature")
            @@ ("max_present_value" :> Num(15))
            @@ ("min_present_value" :> Num(5))
            @@ ("resolution" :> Num(1))
            @@ ("application_type" :> Num(13 * 65536))
            @@ ("engineering_units" :> Num(62))))
    @@ ("Rti2MaxTemp" :>
            (("description" :> "Max Temperature")
            @@ ("max_present_value" :> Num(35))
            @@ ("min_present_value" :> Num(20))
            @@ ("resolution" :> Num(1))
            @@ ("application_type" :> Num(13 * 65536))
            @@ ("engineering_units" :> Num(62))))
    @@ ("TuyaSensorTemperature" :>
            (("description" :> "Temperature Measurement")
            @@ ("resolution" :> Frac(1, 10))
            @@ ("application_type" :> Num(13 * 65536))
            @@ ("engineering_units" :> Num(62))))
    @@ ("TuyaSensorRelativeHumidity" :>
            (("description" :> "Relative Humidity Measurement")
            @@ ("resolution" :> Num(1))
            @@ ("application_type" :> Num(1 * 65536))
            @@ ("engineering_units" :> Num(98))))
    @@ ("TuyaMaxTemperature" :>
            (("description" :> "Max Temperature")
            @@ ("max_present_value" :> Num(30))
            @@ ("min_present_value" :> Num(-20))
            @@ ("resolution" :> Frac(1, 10))
            @@ ("application_type" :> Num(13 * 65536))
            @@ ("engineering_units" :> Num(62))))
    @@ ("TuyaMinTemperature" :>
            (("description" :> "Min Temperature")
            @@ ("max_present_value" :> Num(30))
            @@ ("min_present_value" :> Num(-20))
            @@ ("resolution" :> Frac(1, 10))
            @@ ("application_type" :> Num(13 * 65536))
            @@ ("engineering_units" :> Num(62))))
    @@ ("TuyaMaxHumidity" :>
            (("description" :> "Max Humidity")
            @@ ("max_present_value" :> Num(100))
            @@ ("min_present_value" :> Num(0))
            @@ ("resolution" :> Num(1))
            @@ ("application_type" :> Num(1 * 65536))
            @@ ("engineering_units" :> Num(98))))
    @@ ("TuyaMinHumidity" :>
            (("description" :> "Min Humidity")
            @@ ("max_present_value" :> Num(100))
            @@ ("min_present_value" :> Num(0))
            @@ ("resolution" :> Num(1))
            @@ ("application_type" :> Num(1 * 65536))
            @@ ("engineering_units" :> Num(98))))
    @@ ("TuyaTempSensivity" :>
            (("description" :> "Temperature sensivity")
            @@ ("max_present_value" :> Num(10))
            @@ ("min_present_value" :> Frac(5, 10))
            @@ ("resolution" :> Frac(5, 10))
            @@ ("application_type" :> Num(13 * 65536))
            @@ ("engineering_units" :> Num(62))))
    @@ ("TuyaHumiditySensivity" :>
            (("description" :> "Humidity sensivity")
            @@ ("max_present_value" :> Num(10))
            @@ ("min_present_value" :> Num(1))
            @@ ("resolution" :> Num(1))
            @@ ("application_type" :> Num(1 * 65536))
            @@ ("engineering_units" :> Num(98))))
    @@ ("TuyaTemperatureReporting" :>
            (("description" :> "Temperature reporting time")
            @@ ("max_present_value" :> Num(300))
            @@ ("min_present_value" :> Num(1))
            @@ ("resolution" :> Num(1))
            @@ ("application_type" :> Num(14 * 65536))
            @@ ("engineering_units" :> Num(72))))
    @@ ("TuyaHumidityReporting" :>
            (("description" :> "Humidity reporting time")
            @@ ("max_present_value" :> Num(300))
            @@ ("min_present_value" :> Num(1))
            @@ ("resolution" :> Num(1))
            @@ ("application_type" :> Num(14 * 65536))
            @@ ("engineering_units" :> Num(72))))

\* The caches after the clusters' __init__ methods have run.
InitCache(ad) ==
    [cl \in Clusters(ad) |->
        IF cl \in Range(Replacement(ad).thermostat) THEN ThermostatInit(ad)
        ELSE IF cl \in DOMAIN AnalogInit THEN AnalogInit[cl]
        ELSE EmptyDict]

\* The listeners of a bus, in registration order.  A thermostat cluster is
\* added to thermostat_bus by TuyaThermostatCluster.__init__ and, where it
\* has an __init__ of its own, once more by that; MaxsmartLocalTempUpdate is
\* no CustomTuyaOnOff and is on no bus.
Listeners(ad, bus) ==
    LET r == Replacement(ad)
    IN  CASE bus = "thermostat_bus" ->
                IF ad \in {"rtitek", "rtitek2", "zonnsmart"} THEN r.thermostat
                ELSE r.thermostat \o r.thermostat
          [] bus \in {"thermostat_onoff_bus", "tuya_onoff_bus"} ->
                SelectSeq(r.onoff, LAMBDA cl : cl \in DOMAIN OnOffTable)
          [] bus = "ui_bus" -> r.ui
          [] bus = "battery_bus" -> r.power
          [] OTHER -> SelectSeq(r.analog \o r.other, LAMBDA cl : cl \o "_bus" = bus)

\* The methods of the Thermostat clusters that the buses call.
Thermostat_handle(cl, c, ev) ==
    CASE cl = "ZONNSMARTThermostat" /\ ev.name = "temperature_change" ->
            ZONNSMARTThermostat_temperature_change(c, ev)
      [] cl # "ZONNSMARTThermostat" /\ ev.name = "temperature_change" ->
            temperature_change(c, ev)
      [] ev.name = "state_change" -> state_change(c, ev)
      [] cl = "SaswellThermostatCluster" /\ ev.name = "on_off_event" ->
            SaswellThermostatCluster_on_off_event(c, ev)
      [] cl = "SaswellThermostatCluster" /\ ev.name = "hass_climate_state_change" ->
            SaswellThermostatCluster_hass_climate_state_change(c, ev)
      [] cl = "MaxsmartThermostat" /\ ev.name = "hass_climate_state_change" ->
            MaxsmartThermostat_hass_climate_state_change(c, ev)
      [] cl = "MaxsmartThermostat" /\ ev.name = "mode_change" ->
            MaxsmartThermostat_mode_change(c, ev)
      [] cl = "MaxsmartThermostat" /\ ev.name = "schedule_change" ->
            MaxsmartThermostat_schedule_change_from(c, ev, 1)
      [] cl = "ElectsmartThermostat" /\ ev.name = "mode_change" ->
            ElectsmartThermostat_mode_change(c, ev)
      [] cl \in {"ElectsmartThermostat", "AvattoThermostat", "EtopThermostat"}
            /\ ev.name = "system_mode_change" -> system_mode_change(c, ev)
      [] cl = "ME167Thermostat" /\ ev.name = "mode_change" ->
            ME167Thermostat_mode_change(c, ev)
      [] cl = "ME167Thermostat" /\ ev.name = "hass_climate_state_change" ->
            ME167Thermostat_hass_climate_state_change(c, ev)
      [] cl = "EtopThermostat" /\ ev.name = "preset_change" ->
            EtopThermostat_preset_change(c, ev)
      [] cl = "AvattoThermostat" /\ ev.name = "mode_change" ->
            AvattoThermostat_mode_change(c, ev)
      [] cl = "RtiThermostat" /\ ev.name = "mode_change" ->
            RtiThermostat_mode_change(c, ev)
      [] cl = "Rti2Thermostat" /\ ev.name = "mode_change" ->
            Rti2Thermostat_mode_change(c, ev)
      [] cl = "ZONNSMARTThermostat" /\ ev.name = "mode_change" ->
            ZONNSMARTThermostat_mode_change(c, ev)
      [] cl = "ZONNSMARTThermostat" /\ ev.name = "mode_change2" ->
            ZONNSMARTThermostat_mode_change2(c, ev)
      [] OTHER -> Handled(c, <<>>)

\* set_value of the clusters with a bus of their own.
set_value(cl, c, ev) ==
    Handled(Put(c, "present_value",
                CASE cl = "MaxsmartAwayYear" -> Add(ev.args[1], 2000)
                  [] cl = "MaxsmartAwayTemperature" -> Div(ev.args[1], 2)
                  [] cl = "MaxsmartAwayOperTime" -> Add(Mul(ev.args[1], 256), ev.args[2][1])
                  [] cl \in {"TuyaMaxTemperature", "TuyaMinTemperature"} -> Div(ev.args[1], 10)
                  [] cl = "TuyaTempSensivity" -> Div(ev.args[1], 2)
                  [] OTHER -> ev.args[1]),
            <<>>)

\* A listener's method named by the event, run on the listener's cache; a
\* listener without such a method is skipped.
Handle(dev, cl, c, ev) ==
    LET r == Replacement(dev.adapter)
    IN  CASE cl \in Range(r.thermostat) -> Thermostat_handle(cl, c, ev)
          [] cl \in Range(r.onoff) ->
                IF ev.name = OnOffTable[cl][1]
                THEN Handled(Put(c, "on_off", ev.args[1]), <<>>)
                ELSE Handled(c, <<>>)
          [] cl = "SaswellPowerConfigurationCluster" ->
                IF ev.name = "battery_alarm_event"
                THEN SaswellPowerConfigurationCluster_battery_alarm_event(c, ev)
                ELSE Handled(c, <<>>)
          [] cl \in {"TuyaPowerConfigurationCluster", "TuyaPowerConfigurationCluster2AAA"} ->
                \* TuyaPowerConfigurationCluster.battery_change
                IF ev.name = "battery_change"
                THEN Handled(Put(c, "battery_percentage_remaining", Mul(ev.args[1], 2)), <<>>)
                ELSE Handled(c, <<>>)
          [] cl \in Range(r.ui) ->
                \* TuyaUserInterfaceCluster.child_lock_change
                IF ev.name = "child_lock_change"
                THEN Handled(Put(c, "keypad_lockout",
                                 IF ev.args[1] = Num(0) THEN Num(0) ELSE Num(1)), <<>>)
                ELSE Handled(c, <<>>)
          [] OTHER ->
                IF ev.name = "set_value" THEN set_value(cl, c, ev) ELSE Handled(c, <<>>)

\* Bus.listener_event: the event goes to every listener in turn; st is the
\* device's caches and the trace of published events.  Each call has
\* returned before the next one starts: its result is a value, the one
\* element of a set, when the next call reads it.
RECURSIVE listener_event(_, _, _)
RECURSIVE PublishAll(_, _, _)
RECURSIVE CallListeners(_, _, _, _)

CallListeners(dev, st, ev, ls) ==
    IF ls = <<>> THEN st
    ELSE LET cl == Head(ls)
             after(h) == PublishAll(dev, [st EXCEPT !.cache[cl] = h.cache], h.publish)
         IN  CHOOSE r \in {CallListeners(dev, after(h), ev, Tail(ls)) :
                                h \in {Handle(dev, cl, st.cache[cl], ev)}} : TRUE

listener_event(dev, st, ev) ==
    CallListeners(dev, [st EXCEPT !.events = Append(@, ev)], ev, Listeners(dev.adapter, ev.bus))

PublishAll(dev, st, evs) ==
    IF evs = <<>> THEN st
    ELSE CHOOSE r \in {PublishAll(dev, st1, Tail(evs)) :
                            st1 \in {listener_event(dev, st, Head(evs))}} : TRUE

\* The manufacturer cluster's _update_attribute: the events it publishes.
ManufUpdate(dev, attrid, value) ==
    CASE dev.adapter = "saswell" -> SaswellManufCluster_update_attribute(attrid, value)
      [] dev.adapter = "maxsmart" -> MaxsmartManufCluster_update_attribute(attrid, value)
      [] dev.adapter = "electsmart" -> ElectsmartManufCluster_update_attribute(dev, attrid, value)
      [] dev.adapter = "me167" -> ME167ManufCluster_update_attribute(attrid, value)
      [] dev.adapter = "etop" -> EtopManufCluster_update_attribute(attrid, value)
      [] dev.adapter = "avatto" -> AvattoManufCluster_update_attribute(dev, attrid, value)
      [] dev.adapter = "rtitek" -> RtiManufCluster_update_attribute(attrid, value)
      [] dev.adapter = "rtitek2" -> Rti2ManufCluster_update_attribute(attrid, value)
      [] dev.adapter = "zonnsmart" -> ZONNSMARTManufCluster_update_attribute(attrid, value)
      [] dev.adapter = "sensor" -> TuyaSensorManufCluster_update_attribute(attrid, value)

-----------------------------------------------------------------------------
\* Writes from the controller.

\* write_attributes takes a dict: here the sequence of its <<key, value>>
\* items, a key being an attribute name or UnknownKey, an attribute id the
\* cluster does not define.
UnknownKey == ToString(UnknownAttr)

StatusRecord(status, attr) == [status |-> status, attr |-> attr]

NoResult == [kind |-> "none", exc |-> "", records |-> <<>>]

Returned(records) == [kind |-> "return", exc |-> "", records |-> records]

Raised(exc) == [kind |-> "raise", exc |-> exc, records |-> <<>>]

\* The outcome of a write: result, the dicts handed to
\* tuya_manufacturer.write_attributes, and the device state afterwards.
WriteOutcome(res, wr, st) == [result |-> res, written |-> wr, st |-> st]

\* The map_attribute overrides of the CustomTuyaOnOff subclasses.
OnOff_map_attribute(dev, cl, c, attribute, value) ==
    IF attribute # "on_off" THEN MapNone(c)
    ELSE IF cl = "MaxsmartChildLock" /\ dev.manufacturer = "_TZE200_chyvmhay"
    THEN MapDict(One(SILVERCREST_CHILD_LOCK_ATTR, value), c)
    ELSE MapDict(One(OnOffTable[cl][2], value), c)

map_attribute(dev, cl, caches, attribute, value) ==
    CASE cl = "SaswellThermostatCluster" ->
            SaswellThermostatCluster_map_attribute(caches[cl], attribute, value)
      [] cl = "MaxsmartThermostat" ->
            MaxsmartThermostat_map_attribute(caches, attribute, value)
      [] cl = "ElectsmartThermostat" ->
            ElectsmartThermostat_map_attribute(caches[cl], attribute, value)
      [] cl = "ME167Thermostat" -> ME167Thermostat_map_attribute(caches[cl], attribute, value)
      [] cl = "EtopThermostat" -> EtopThermostat_map_attribute(caches[cl], attribute, value)
      [] cl = "AvattoThermostat" ->
            AvattoThermostat_map_attribute(dev, caches[cl], attribute, value)
      [] cl = "RtiThermostat" -> RtiThermostat_map_attribute(caches[cl], attribute, value)
      [] cl = "Rti2Thermostat" -> Rti2Thermostat_map_attribute(caches[cl], attribute, value)
      [] cl = "ZONNSMARTThermostat" ->
            ZONNSMARTThermostat_map_attribute(caches[cl], attribute, value)
      [] OTHER -> OnOff_map_attribute(dev, cl, caches[cl], attribute, value)

\* The loop of write_attributes over the records: manufacturer_attrs.update
\* of each map_attribute result; update(None) raises TypeError.
RECURSIVE MapRecords(_, _, _, _, _)
MapRecords(dev, cl, st, records, acc) ==
    IF records = <<>> THEN [kind |-> "dict", attrs |-> acc, exc |-> "", st |-> st]
    ELSE LET update(m, st1) ==
                IF m.kind = "raise"
                THEN [kind |-> "raise", attrs |-> acc, exc |-> m.exc, st |-> st1]
                ELSE IF m.kind = "none"
                THEN [kind |-> "raise", attrs |-> acc, exc |-> "TypeError", st |-> st1]
                ELSE MapRecords(dev, cl, st1, Tail(records), Update(acc, m.attrs))
             mapped(m) == update(m, [st EXCEPT !.cache[cl] = m.cache])
         IN  mapped(map_attribute(dev, cl, st.cache, Head(records)[1], Head(records)[2]))

\* CustomTuyaOnOff.write_attributes; TuyaThermostatCluster.write_attributes,
\* which the thermostat clusters inherit, has the same body.
write_attributes(dev, cl, st, attributes) ==
    LET records == SelectSeq(attributes, LAMBDA a : a[1] # UnknownKey)
        write(m) ==
            IF m.kind = "raise"
            THEN WriteOutcome(Raised(m.exc), <<>>, m.st)
            ELSE IF DOMAIN m.attrs = {}
            THEN WriteOutcome(
                    Returned([i \in 1..Len(records) |-> StatusRecord("FAILURE", records[i][1])]),
                    <<>>, m.st)
            ELSE WriteOutcome(Returned(<<StatusRecord("SUCCESS", "")>>), <<m.attrs>>, m.st)
    IN  IF records = <<>>
        THEN WriteOutcome(Returned(<<StatusRecord("SUCCESS", "")>>), <<>>, st)
        ELSE write(MapRecords(dev, cl, st, records, EmptyDict))

\* MaxsmartLocalTempUpdate.write_attributes: on_off asks the device for its
\* temperature and returns what the manufacturer write returned.
MaxsmartLocalTempUpdate_write_attributes(st, attributes) ==
    LET records == SelectSeq(attributes, LAMBDA a : a[1] # UnknownKey)
    IN  IF records = <<>>
        THEN WriteOutcome(Returned(<<StatusRecord("SUCCESS", "")>>), <<>>, st)
        ELSE IF HasItem(records, "on_off")
        THEN WriteOutcome(Returned(<<StatusRecord("SUCCESS", "")>>),
                          <<One(MAXSMART_TEMPERATURE_ATTR, Num(0))>>, st)
        ELSE WriteOutcome(
                Returned([i \in 1..Len(records) |-> StatusRecord("FAILURE", records[i][1])]),
                <<>>, st)

\* The AnalogOutput clusters whose write_attributes sends one manufacturer
\* attribute: the attribute and what the written value is multiplied by.
AnalogTable ==
    ("SaswellTempCalibration" :> <<SASWELL_TEMP_CORRECTION_ATTR, 1>>)
    @@ ("MaxsmartEcoTemperature" :> <<MAXSMART_ECO_TEMP_ATTR, 2>>)
    @@ ("MaxsmartComfortTemperature" :> <<MAXSMART_COMFORT_TEMP_ATTR, 2>>)
    @@ ("MaxsmartWindowDetectTemperature" :> <<MAXSMART_WINDOW_DETECT_TEMP_ATTR, 2>>)
    @@ ("MaxsmartWindowDetectTime" :> <<MAXSMART_WINDOW_DETECT_TIME_ATTR, 1>>)
    @@ ("MaxsmartTempCalibration" :> <<MAXSMART_TEMP_CALIBRATION_ATTR, 10>>)
    @@ ("ElectsmartTempCalibration" :> <<ELECTSMART_TEMP_CALIBRATION_ATTR, 1>>)
    @@ ("ME167TempCalibration" :> <<ME167_TEMP_CALIBRATION_ATTR, 1>>)
    @@ ("AvattoTempCalibration" :> <<AVATTO_TEMP_CALIBRATION_ATTR, 1>>)
    @@ ("RtiValvePosition" :> <<RTI_VALVE_POSITION_ATTR, 10>>)
    @@ ("RtiTempCalibration" :> <<RTI_TEMP_CALIBRATION_ATTR, 10>>)
    @@ ("RtiMinTemp" :> <<RTI_MIN_TEMPERATURE_ATTR, 10>>)
    @@ ("RtiMaxTemp" :> <<RTI_MAX_TEMPERATURE_ATTR, 10>>)
    @@ ("Rti2ValvePosition" :> <<RTI2_VALVE_POSITION_ATTR, 10>>)
    @@ ("Rti2TempCalibration" :> <<RTI2_TEMP_CALIBRATION_ATTR, 10>>)
    @@ ("Rti2MinTemp" :> <<RTI2_MIN_TEMPERATURE_ATTR, 10>>)
    @@ ("Rti2MaxTemp" :> <<RTI2_MAX_TEMPERATURE_ATTR, 10>>)
    @@ ("TuyaMaxTemperature" :> <<TUYA_MAX_TEMP, 10>>)
    @@ ("TuyaMinTemperature" :> <<TUYA_MIN_TEMP, 10>>)
    @@ ("TuyaMaxHumidity" :> <<TUYA_MAX_HUMIDITY, 1>>)
    @@ ("TuyaMinHumidity" :> <<TUYA_MIN_HUMIDITY, 1>>)
    @@ ("TuyaTempSensivity" :> <<TUYA_TEMP_SENSIVITY, 2>>)
    @@ ("TuyaHumiditySensivity" :> <<TUYA_HUMIDITY_SENSIVITY, 1>>)
    @@ ("TuyaTemperatureReporting" :> <<TUYA_TEMP_REPORTING, 1>>)
    @@ ("TuyaHumidityReporting" :> <<TUYA_HUMIDITY_REPORTING, 1>>)

\* The field of the away struct an away cluster writes.
AwayField ==
    ("MaxsmartAwayYear" :> "year") @@ ("MaxsmartAwayMonth" :> "month")
    @@ ("MaxsmartAwayDay" :> "day") @@ ("MaxsmartAwayHour" :> "hour")
    @@ ("MaxsmartAwayMinute" :> "minute") @@ ("MaxsmartAwayTemperature" :> "temperature")
    @@ ("MaxsmartAwayOperTime" :> "oper_time")

\* What an AnalogOutput cluster's write_attributes sends to the device for a
\* written value: a dict, nothing (the cluster inherits
\* LocalDataCluster.write_attributes), or the IndexError of data[0] when
\* away_cluster_get raised inside the bus.
AnalogSend(dev, cl, caches, attributes, value) ==
    CASE cl \in DOMAIN AwayField ->
            LET data == away_cluster_get(caches, AwayField[cl], attributes)
            IN  IF data.kind = "raise" THEN MapRaise("IndexError", caches[cl])
                ELSE MapDict(One(MAXSMART_AWAY_DATA_ATTR, data.data), caches[cl])
      [] cl \in {"ElectsmartTempCalibration", "AvattoTempCalibration"}
            /\ dev.manufacturer \in AvattoTenths ->
            MapDict(One(AnalogTable[cl][1], Mul(value, 10)), caches[cl])
      [] cl \in DOMAIN AnalogTable
            /\ ~(cl \in {"ElectsmartTempCalibration", "AvattoTempCalibration"}
                  /\ dev.manufacturer \in AvattoTenths) ->
            MapDict(One(AnalogTable[cl][1], Mul(value, AnalogTable[cl][2])), caches[cl])
      [] OTHER -> MapNone(caches[cl])

\* The write_attributes of the AnalogOutput clusters: every defined
\* attribute is cached and followed by a manufacturer write; an undefined
\* id is logged and skipped; the status is SUCCESS whatever happened.
RECURSIVE Analog_write_attributes(_, _, _, _, _, _)
Analog_write_attributes(dev, cl, st, attributes, rest, wr) ==
    IF rest = <<>>
    THEN WriteOutcome(Returned(<<StatusRecord("SUCCESS", "")>>), wr, st)
    ELSE LET a == Head(rest)
             st1 == [st EXCEPT !.cache[cl] = Put(@, a[1], a[2])]
             sent(send) ==
                IF send.kind = "raise"
                THEN WriteOutcome(Raised(send.exc), wr, st1)
                ELSE Analog_write_attributes(dev, cl, st1, attributes, Tail(rest),
                        IF send.kind = "dict" THEN Append(wr, send.attrs) ELSE wr)
         IN  IF a[1] = UnknownKey
             THEN Analog_write_attributes(dev, cl, st, attributes, Tail(rest), wr)
             ELSE sent(AnalogSend(dev, cl, st1.cache, attributes, a[2]))

\* write_attributes of a synthetic cluster.
ClusterWrite(dev, cl, st, attributes) ==
    CASE cl = "MaxsmartLocalTempUpdate" -> MaxsmartLocalTempUpdate_write_attributes(st, attributes)
      [] cl \in Range(Replacement(dev.adapter).analog) ->
            Analog_write_attributes(dev, cl, st, attributes, attributes, <<>>)
      [] OTHER -> write_attributes(dev, cl, st, attributes)

\* What command returns: [command_id, status], or the bare status FAILURE of
\* a toggle whose on_off was never cached.
CommandReturned(command_id, status) ==
    [kind |-> "command", exc |-> "", records |-> <<StatusRecord(status, ToString(command_id))>>]

StatusReturned(status) ==
    [kind |-> "status", exc |-> "", records |-> <<StatusRecord(status, "")>>]

\* A command that switches on whatever its id is.
CustomTuyaOnOff_command_any_id_on(dev, cl, st, command_id) ==
    LET done(out) ==
            WriteOutcome(IF out.result.kind = "raise" THEN out.result
                         ELSE CommandReturned(command_id, out.result.records[1].status),
                         out.written, out.st)
    IN  done(ClusterWrite(dev, cl, st, <<<<"on_off", Num(1)>>>>))

\* CustomTuyaOnOff.command and MaxsmartLocalTempUpdate.command: off, on and
\* toggle write on_off through the cluster's write_attributes; toggle reads
\* on_off from the cluster's cache first.
CustomTuyaOnOff_command(dev, cl, st, command_id) ==
    LET cached == Get(st.cache[cl], "on_off")
        value == CASE command_id = 0 -> Num(0)
                   [] command_id = 1 -> Num(1)
                   [] OTHER -> Not(cached)
        done(out) ==
            WriteOutcome(IF out.result.kind = "raise" THEN out.result
                         ELSE CommandReturned(command_id, out.result.records[1].status),
                         out.written, out.st)
    IN  IF command_id \notin {0, 1, 2}
        THEN WriteOutcome(CommandReturned(command_id, "UNSUP_CLUSTER_COMMAND"), <<>>, st)
        ELSE IF command_id = 2 /\ cached = None
        THEN WriteOutcome(StatusReturned("FAILURE"), <<>>, st)
        ELSE done(ClusterWrite(dev, cl, st, <<<<"on_off", value>>>>))

-----------------------------------------------------------------------------
\* The environment: what the device reports and what the controller writes.

\* Reported values of each manufacturer attribute.
ReportValues(ad) ==
    CASE ad = "saswell" ->
            (SASWELL_ROOM_TEMP_ATTR :> {Num(202), Num(215)})
            @@ (SASWELL_TARGET_TEMP_ATTR :> {Num(0), Num(200), Num(215)})
            @@ (SASWELL_TEMP_CORRECTION_ATTR :> {Num(-2)})
            @@ (SASWELL_ONOFF_ATTR :> {Num(0), Num(1)})
            @@ (SASWELL_SCHEDULE_MODE_ATTR :> {Num(1)})
            @@ (SASWELL_AWAY_MODE_ATTR :> {Num(1)})
            @@ (SASWELL_CHILD_LOCK_ATTR :> {Num(0), Num(1)})
            @@ (SASWELL_WINDOW_DETECT_ATTR :> {Num(1)})
            @@ (SASWELL_ANTI_FREEZE_ATTR :> {Num(1)})
            @@ (SASWELL_LIMESCALE_PROTECT_ATTR :> {Num(1)})
            @@ (SASWELL_BATTERY_ALARM_ATTR :> {Num(0), Num(1)})
            @@ (UnknownAttr :> {Num(7)})
      [] ad = "maxsmart" ->
            (MAXSMART_TEMPERATURE_ATTR :> {Num(205)})
            @@ (MAXSMART_TARGET_TEMP_AUTO_ATTR :> {Num(43)})
            @@ (MAXSMART_TARGET_TEMP_MAN_ATTR :> {Num(0), Num(40)})
            @@ (MAXSMART_MODE_ATTR :> {Num(0), Num(1), Num(2), Num(4)})
            @@ (MAXSMART_BOOST_ATTR :> {Num(0), Num(1)})
            @@ (MAXSMART_CHILD_LOCK_ATTR :> {Num(1)})
            @@ (SILVERCREST_CHILD_LOCK_ATTR :> {Num(1)})
            @@ (MAXSMART_AWAY_DATA_ATTR :>
                    {<<24, 0, 34, 30, 12, 15, 6, 24>>, <<1, 2, 35, 0, 8, 1, 1, 25>>})
            @@ (MAXSMART_COMFORT_TEMP_ATTR :> {Num(43)})
            @@ (MAXSMART_ECO_TEMP_ATTR :> {Num(34)})
            @@ (MAXSMART_TEMP_CALIBRATION_ATTR :> {Num(-20)})
            @@ (MAXSMART_WINDOW_DETECT_ATTR :> {Num(1)})
            @@ (MAXSMART_WINDOW_DETECT_TEMP_ATTR :> {Num(10)})
            @@ (MAXSMART_WINDOW_DETECT_TIME_ATTR :> {Num(5)})
            @@ (MAXSMART_BATTERY_ATTR :> {Num(70), Num(100), Num(130), Num(150)})
            @@ (SILVERCREST_BATTERY_ATTR :> {Num(60)})
            @@ (MAXSMART_BOOST_COUNTDOWN :> {Num(300)})
            @@ (MAXSMART_SCHEDULE_MONDAY :>
                    {<<42, 96, 34, 88, 42, 68, 34, 48, 42, 32, 34, 24, 42, 16, 34, 8, 40, 1>>})
            @@ (MAXSMART_SCHEDULE_SUNDAY :>
                    {<<36, 92, 44, 80, 36, 72, 44, 56, 36, 40, 44, 36, 36, 28, 44, 27, 38, 7>>})
            @@ (UnknownAttr :> {Num(7)})
      [] ad = "electsmart" ->
            (ELECTSMART_TEMPERATURE_ATTR :> {Num(205)})
            @@ (ELECTSMART_TARGET_TEMP_ATTR :> {Num(0), Num(22), Num(215)})
            @@ (ELECTSMART_MODE_ATTR :> {Num(0), Num(1)})
            @@ (ELECTSMART_SYSTEM_MODE_ATTR :> {Num(0), Num(1)})
            @@ (ELECTSMART_HEAT_STATE_ATTR :> {Num(0), Num(1)})
            @@ (ELECTSMART_CHILD_LOCK_ATTR :> {Num(1)})
            @@ (ELECTSMART_TEMP_CALIBRATION_ATTR :> {Num(-15)})
            @@ (UnknownAttr :> {Num(7)})
      [] ad = "me167" ->
            (ME167_TEMPERATURE_ATTR :> {Num(205)})
            @@ (ME167_TARGET_TEMP_ATTR :> {Num(215)})
            @@ (ME167_MODE_ATTR :> {Num(0), Num(1), Num(2), Num(3)})
            @@ (ME167_STATE_ATTR :> {Num(0), Num(1)})
            @@ (ME167_CHILD_LOCK_ATTR :> {Num(1)})
            @@ (ME167_BATTERY_STATE_ATTR :> {Num(0), Num(1)})
            @@ (ME167_TEMP_CALIBRATION_ATTR :> {Num(-2)})
            @@ (ME167_FROST_PROTECTION :> {Num(1)})
            @@ (UnknownAttr :> {Num(7)})
      [] ad = "etop" ->
            (ETOP_TEMPERATURE_ATTR :> {Num(205)})
            @@ (ETOP_TARGET_TEMP_ATTR :> {Num(215)})
            @@ (ETOP_PRESET_ATTR :> {Num(0), Num(1), Num(2)})
            @@ (ETOP_SYSTEM_MODE_ATTR :> {Num(0), Num(1)})
            @@ (ETOP_BATTERY_STATE_ATTR :> {Num(0), Num(1)})
            @@ (ETOP_WINDOW_DETECT_FUNC_ATTR :> {Num(1)})
            @@ (UnknownAttr :> {Num(7)})
      [] ad = "avatto" ->
            (AVATTO_TEMPERATURE_ATTR :> {Num(21), Num(205), Num(500)})
            @@ (AVATTO_TARGET_TEMP_ATTR :> {Num(22), Num(215), Num(600)})
            @@ (AVATTO_MODE_ATTR :> {Num(0), Num(1)})
            @@ (AVATTO_SYSTEM_MODE_ATTR :> {Num(0), Num(1)})
            @@ (AVATTO_HEAT_STATE_ATTR :> {Num(0), Num(1)})
            @@ (BEOK_HEAT_STATE_ATTR :> {Num(1)})
            @@ (AVATTO_CHILD_LOCK_ATTR :> {Num(1)})
            @@ (AVATTO_TEMP_CALIBRATION_ATTR :> {Num(-15)})
            @@ (UnknownAttr :> {Num(7)})
      [] ad = "rtitek" ->
            (RTI_TEMPERATURE_ATTR :> {Num(205), Num(60000)})
            @@ (RTI_TARGET_TEMP_ATTR :> {Num(215)})
            @@ (RTI_MODE_ATTR :> {Num(0), Num(1), Num(2)})
            @@ (RTI_BOOST_ATTR :> {Num(0), Num(1)})
            @@ (RTI_BOOST_COUNTDOWN_ATTR :> {Num(300)})
            @@ (RTI_CHILD_LOCK_ATTR :> {Num(1)})
            @@ (RTI_WINDOW_DETECT_ATTR :> {Num(1)})
            @@ (RTI_TEMP_CALIBRATION_ATTR :> {Num(-15)})
            @@ (RTI_MIN_TEMPERATURE_ATTR :> {Num(50)})
            @@ (RTI_MAX_TEMPERATURE_ATTR :> {Num(300)})
            @@ (RTI_VALVE_POSITION_ATTR :> {Num(250), Num(60000)})
            @@ (RTI_VALVE_STATE_ATTR :> {Num(0), Num(1)})
            @@ (RTI_BATTERY_ATTR :> {Num(80)})
            @@ (RTI_SOFT_VER_ATTR :> {Num(109)})
            @@ (UnknownAttr :> {Num(7)})
      [] ad = "rtitek2" ->
            (RTI2_TEMPERATURE_ATTR :> {Num(205), Num(60000)})
            @@ (RTI2_TARGET_TEMP_ATTR :> {Num(215)})
            @@ (RTI2_MODE_ATTR :> {Num(0), Num(1), Num(2)})
            @@ (RTI2_CHILD_LOCK_ATTR :> {Num(1)})
            @@ (RTI2_WINDOW_DETECT_ATTR :> {Num(1)})
            @@ (RTI2_TEMP_CALIBRATION_ATTR :> {Num(-15)})
            @@ (RTI2_MIN_TEMPERATURE_ATTR :> {Num(50)})
            @@ (RTI2_MAX_TEMPERATURE_ATTR :> {Num(300)})
            @@ (RTI2_VALVE_POSITION_ATTR :> {Num(250), Num(60000)})
            @@ (RTI2_VALVE_STATE_ATTR :> {Num(0), Num(1)})
            @@ (RTI2_BATTERY_ATTR :> {Num(80)})
            @@ (UnknownAttr :> {Num(7)})
      [] ad = "zonnsmart" ->
            (ZONNSMART_TEMPERATURE_ATTR :> {Num(205)})
            @@ (ZONNSMART_TARGET_TEMP_ATTR :> {Num(215)})
            @@ (ZONNSMART_MODE_ATTR :> {Num(0), Num(1), Num(2)})
            @@ (ZONNSMART_HEATING_STOPPING :> {Num(0), Num(1)})
            @@ (ZONNSMART_CHILD_LOCK_ATTR :> {Num(0), Num(1)})
            @@ (ZONNSMART_WINDOW_DETECT_ATTR :> {Num(1)})
            @@ (ZONNSMART_BATTERY_ATTR :> {Num(80)})
            @@ (ZONNSMART_BOOST_TIME_ATTR :> {Num(300)})
            @@ (ZONNSMART_UPTIME_TIME_ATTR :> {Num(12)})
            @@ (UnknownAttr :> {Num(7)})
      [] ad = "sensor" ->
            (TUYA_TEMPERATURE_ATTR :> {Num(202)})
            @@ (TUYA_HUMIDITY_ATTR :> {Num(65)})
            @@ (TUYA_BATTERY_ATTR :> {Num(40)})
            @@ (TUYA_MAX_TEMP :> {Num(254)})
            @@ (TUYA_MIN_TEMP :> {Num(154)})
            @@ (TUYA_ALARM_TEMP :> {Num(0), Num(1), Num(2)})
            @@ (TUYA_MAX_HUMIDITY :> {Num(61)})
            @@ (TUYA_MIN_HUMIDITY :> {Num(21)})
            @@ (TUYA_ALARM_HUMIDITY :> {Num(0), Num(1), Num(2)})
            @@ (TUYA_TEMP_SENSIVITY :> {Num(6)})
            @@ (TUYA_HUMIDITY_SENSIVITY :> {Num(3)})
            @@ (TUYA_TEMP_REPORTING :> {Num(120)})
            @@ (TUYA_HUMIDITY_REPORTING :> {Num(120)})
            @@ (TUYA_TEMP_UNIT :> {Num(0), Num(1)})
            @@ (UnknownAttr :> {Num(7)})

\* Values the controller writes to a thermostat attribute, besides the value
\* the cluster has cached for it.
ThermostatValues(ad) ==
    CASE ad = "saswell" ->
            ("occupied_heating_setpoint" :> {Num(2150), Num(2145), Num(2155), Num(2160)})
            @@ ("system_mode" :> {Num(SystemMode_Off), Num(SystemMode_Heat), Num(1)})
            @@ ("local_temperature_calibration" :> {Num(-3)})
            @@ ("local_temperature" :> {Num(2000)})
            @@ (UnknownKey :> {Num(1)})
      [] ad = "maxsmart" ->
            ("occupied_heating_setpoint" :> {Num(2125), Num(2150), Num(2175)})
            @@ ("operation_preset" :> {Num(0), Num(1), Num(2), Num(3), Num(5)})
            @@ ("system_mode" :> {Num(SystemMode_Off), Num(SystemMode_Heat)})
            @@ ("occupancy" :> {Num(0), Num(1)})
            @@ ("programing_oper_mode" :> {Num(0), Num(1)})
            @@ ("comfort_heating_setpoint" :> {Num(2150)})
            @@ ("eco_heating_setpoint" :> {Num(1700)})
            @@ ("window_detection_temp" :> {Num(500)})
            @@ ("schedule_monday_1_temperature" :> {Num(20)})
            @@ ("schedule_monday_1_hour" :> {Frac(13, 2)})
            @@ ("schedule_sunday_9_temperature" :> {Frac(43, 2)})
            @@ ("local_temperature" :> {Num(2000)})
            @@ (UnknownKey :> {Num(1)})
      [] ad \in {"rtitek", "rtitek2"} ->
            ("occupied_heating_setpoint" :> {Num(2150), Num(2155)})
            @@ ("min_heat_setpoint_limit" :> {Num(500), Num(550)})
            @@ ("local_temperature_calibration" :> {Num(-15)})
            @@ ("valve_position" :> {Num(2500)})
            @@ ("operation_preset" :> {Num(0), Num(1), Num(2), Num(5)})
            @@ ("system_mode" :> {Num(SystemMode_Off), Num(SystemMode_Heat)})
            @@ ("occupancy" :> {Num(0), Num(1)})
            @@ ("programing_oper_mode" :> {Num(0), Num(1)})
            @@ ("local_temperature" :> {Num(2000)})
            @@ (UnknownKey :> {Num(1)})
      [] ad = "zonnsmart" ->
            ("occupied_heating_setpoint" :> {Num(2150), Num(2155)})
            @@ ("system_mode" :> {Num(SystemMode_Off), Num(SystemMode_Heat), Num(1)})
            @@ ("programing_oper_mode" :> {Num(0), Num(1)})
            @@ ("local_temperature" :> {Num(2000)})
            @@ (UnknownKey :> {Num(1)})
      [] ad = "me167" ->
            ("occupied_heating_setpoint" :> {Num(2150), Num(2155)})
            @@ ("local_temperature_calibration" :> {Num(-2)})
            @@ ("operation_preset" :> {Num(0), Num(1), Num(2)})
            @@ ("system_mode" :> {Num(SystemMode_Off), Num(SystemMode_Heat), Num(1)})
            @@ ("programing_oper_mode" :> {Num(0), Num(1)})
            @@ ("local_temperature" :> {Num(2000)})
            @@ (UnknownKey :> {Num(1)})
      [] ad \in {"electsmart", "avatto", "etop"} ->
            ("occupied_heating_setpoint" :> {Num(2150), Num(2250)})
            @@ ("operation_preset" :> {Num(0), Num(1), Num(2), Num(5)})
            @@ ("system_mode" :> {Num(SystemMode_Off), Num(SystemMode_Heat)})
            @@ ("occupancy" :> {Num(0), Num(1)})
            @@ ("programing_oper_mode" :> {Num(0), Num(1)})
            @@ ("local_temperature" :> {Num(2000)})
            @@ (UnknownKey :> {Num(1)})

OnOffValues ==
    ("on_off" :> {Num(0), Num(1)}) @@ ("on_time" :> {Num(5)}) @@ (UnknownKey :> {Num(1)})

AnalogValues ==
    ("present_value" :> {Num(2), Frac(3, 2)})
    @@ ("max_present_value" :> {Num(9)})
    @@ (UnknownKey :> {Num(1)})

\* Command ids the controller sends to an OnOff cluster: off, on, toggle,
\* and two ids CustomTuyaOnOff.command does not handle (0x40 off_with_effect,
\* 0x42 on_with_timed_off).
OnOffCommandIds == {0, 1, 2, 64, 66}

\* Writes of two attributes at once.
OnOffPairs ==
    {<<<<"on_off", Num(1)>>, <<"on_time", Num(5)>>>>,
     <<<<"on_time", Num(5)>>, <<"off_wait_time", Num(6)>>>>,
     <<<<"on_time", Num(5)>>, <<UnknownKey, Num(1)>>>>}

AnalogPairs ==
    {<<<<UnknownKey, Num(1)>>, <<"present_value", Num(2)>>>>}

\* The dicts of one item over a table of values, a cached value included.
Dicts(table, c) ==
    LET vals(k) == table[k] \cup (IF k \in DOMAIN c /\ c[k] # None THEN {c[k]} ELSE {})
        items == UNION {{<<k, v>> : v \in vals(k)} : k \in DOMAIN table}
    IN  {<<a>> : a \in items}

\* A write_attributes that would cache the attribute only after the awaited
\* manufacturer write.
Analog_write_start_cache_late(dev, cl, st, attributes) ==
    LET a == attributes[1]
        sent(send) ==
            CASE send.kind = "raise" -> WriteOutcome(Raised(send.exc), <<>>, st)
              [] send.kind = "dict" -> WriteOutcome(NoResult, <<send.attrs>>, st)
              [] OTHER -> WriteOutcome(Returned(<<StatusRecord("SUCCESS", "")>>), <<>>, st)
    IN  IF a[1] = UnknownKey
        THEN WriteOutcome(Returned(<<StatusRecord("SUCCESS", "")>>), <<>>, st)
        ELSE sent(AnalogSend(dev, cl, st.cache, attributes, a[2]))

\* An AnalogOutput write_attributes of one attribute up to its suspension
\* point: the attribute is cached and the dict to send is composed; written
\* holds the dict whose send is awaited, and result is what the call has
\* returned or raised when it did not suspend.
Analog_write_start(dev, cl, st, attributes) ==
    LET a == attributes[1]
        st1 == [st EXCEPT !.cache[cl] = Put(@, a[1], a[2])]
        sent(send) ==
            CASE send.kind = "raise" -> WriteOutcome(Raised(send.exc), <<>>, st1)
              [] send.kind = "dict" -> WriteOutcome(NoResult, <<send.attrs>>, st1)
              [] OTHER -> WriteOutcome(Returned(<<StatusRecord("SUCCESS", "")>>), <<>>, st1)
    IN  IF a[1] = UnknownKey
        THEN WriteOutcome(Returned(<<StatusRecord("SUCCESS", "")>>), <<>>, st)
        ELSE sent(AnalogSend(dev, cl, st1.cache, attributes, a[2]))

-----------------------------------------------------------------------------
\* The devices of the adapter and the module's registry.

\* The ieee addresses of the devices: DeviceA is the device whose clusters
\* the model follows, the other is a second device of the same adapter.
DeviceA == "00:0d:6f:00:0a:90:69:e7"

Ieees == {DeviceA, "00:0d:6f:00:0b:11:22:33"}

\* A registry that holds the one manufacturer cluster constructed last.
ManufCluster_init_single(reg, ieee, instance) == One(ieee, instance)

\* <Adapter>ManufCluster.__init__: <Adapter>ManufClusterSelf[ieee] = self.
ManufCluster_init(reg, ieee, instance) == Put(reg, ieee, instance)

\* The registry after the constructions of seq.
RECURSIVE Registered(_)
Registered(seq) ==
    IF seq = <<>> THEN EmptyDict
    ELSE ManufCluster_init(Registered(SubSeq(seq, 1, Len(seq) - 1)), seq[Len(seq)], Len(seq))

\* The manufacturer cluster constructed last for ieee.
InstanceOf(seq, ieee) ==
    CHOOSE k \in DOMAIN seq :
        seq[k] = ieee /\ \A j \in DOMAIN seq : seq[j] = ieee => j <= k

\* A lookup that takes the manufacturer cluster registered last, whatever
\* its ieee.
Route_newest(reg, seq, cl, thermostats) ==
    IF cl \in thermostats THEN InstanceOf(seq, DeviceA) ELSE Len(seq)

\* The manufacturer cluster a synthetic cluster of DeviceA writes to: the
\* Thermostat clusters use self.endpoint.tuya_manufacturer, the others
\* <Adapter>ManufClusterSelf[self.endpoint.device.ieee].endpoint.tuya_manufacturer.
Route(reg, seq, cl, thermostats) ==
    IF cl \in thermostats THEN InstanceOf(seq, DeviceA) ELSE reg[DeviceA]

-----------------------------------------------------------------------------
\* The state machine.

Dev == [adapter |-> adapter, manufacturer |-> manufacturer]

St == [cache |-> cache, events |-> <<>>]

Op(op, cl, args) == [op |-> op, cluster |-> cl, args |-> args]

InitOf(ads) ==
    /\ adapter \in ads
    /\ manufacturer \in Manufacturers(adapter)
    /\ manuf = EmptyDict
    /\ cache = InitCache(adapter)
    /\ events = <<>>
    /\ written = <<>>
    /\ result = NoResult
    /\ last = Op("init", "", <<>>)
    /\ budget = MaxSteps
    /\ constructed \in {<<DeviceA>>} \cup {<<i, DeviceA>> : i \in Ieees \ {DeviceA}}
    /\ registry = Registered(constructed)
    /\ target = <<>>
    /\ pending = <<>>

Init == InitOf(Adapters)

\* The device reports a manufacturer attribute:
\* <Adapter>ManufCluster._update_attribute(attrid, value).
DeviceReport ==
    /\ budget > 0
    /\ \E attrid \in DOMAIN ReportValues(adapter) :
         \E value \in ReportValues(adapter)[attrid] :
            LET effects(st) ==
                    /\ manuf' = Put(manuf, attrid, value)
                    /\ cache' = st.cache
                    /\ events' = st.events
                    /\ written' = <<>>
                    /\ result' = NoResult
                    /\ last' = Op("report", "", <<Num(attrid), value>>)
            IN  effects(PublishAll(Dev, St, ManufUpdate(Dev, attrid, value)))
    /\ budget' = budget - 1
    /\ target' = <<>>
    /\ UNCHANGED <<adapter, manufacturer, constructed, registry, pending>>

\* The effects of a controller write on the device.
Write(op, cl, attributes) ==
    LET effects(out) ==
            /\ cache' = out.st.cache
            /\ events' = out.st.events
            /\ written' = out.written
            /\ result' = out.result
            /\ last' = Op(op, cl, attributes)
            /\ budget' = budget - 1
            /\ target' = [k \in DOMAIN out.written |->
                            Route(registry, constructed, cl,
                                  Range(Replacement(adapter).thermostat))]
            /\ UNCHANGED <<adapter, manufacturer, manuf, constructed, registry, pending>>
    IN  effects(ClusterWrite(Dev, cl, St, attributes))

\* The controller writes attributes of the Thermostat cluster.
ThermostatWrite ==
    /\ budget > 0
    /\ \E cl \in Range(Replacement(adapter).thermostat) :
         \E attributes \in Dicts(ThermostatValues(adapter), cache[cl]) :
            Write("thermostat_write", cl, attributes)

\* The controller writes attributes of an OnOff cluster.
OnOffWrite ==
    /\ budget > 0
    /\ \E cl \in Range(Replacement(adapter).onoff) :
         \E attributes \in Dicts(OnOffValues, EmptyDict) \cup OnOffPairs :
            Write("onoff_write", cl, attributes)

\* The controller writes attributes of an AnalogOutput cluster.
AnalogWrite ==
    /\ budget > 0
    /\ \E cl \in Range(Replacement(adapter).analog) :
         \E attributes \in Dicts(AnalogValues, cache[cl]) \cup AnalogPairs :
            Write("analog_write", cl, attributes)

\* The controller sends a command to an OnOff cluster.
OnOffCommand ==
    /\ budget > 0
    /\ \E cl \in Range(Replacement(adapter).onoff) :
         \E command_id \in OnOffCommandIds :
            LET effects(out) ==
                    /\ cache' = out.st.cache
                    /\ events' = out.st.events
                    /\ written' = out.written
                    /\ result' = out.result
                    /\ last' = Op("onoff_command", cl, <<Num(command_id)>>)
                    /\ budget' = budget - 1
                    /\ target' = [k \in DOMAIN out.written |->
                                    Route(registry, constructed, cl,
                                          Range(Replacement(adapter).thermostat))]
                    /\ UNCHANGED <<adapter, manufacturer, manuf, constructed, registry,
                                   pending>>
            IN  effects(CustomTuyaOnOff_command(Dev, cl, St, command_id))

\* The controller starts a write of one attribute of an AnalogOutput cluster
\* as a task of its own: write_attributes runs up to the awaited
\* manufacturer write (or to its end when it awaits nothing).
AnalogWriteStart ==
    /\ budget > 0
    /\ \E cl \in Range(Replacement(adapter).analog) :
         \E attributes \in Dicts(AnalogValues, cache[cl]) :
            LET effects(out) ==
                    /\ cache' = out.st.cache
                    /\ events' = out.st.events
                    /\ result' = out.result
                    /\ pending' = pending \o
                            [k \in DOMAIN out.written |->
                                [cluster |-> cl, attrs |-> out.written[k],
                                 target |-> Route(registry, constructed, cl,
                                                  Range(Replacement(adapter).thermostat))]]
                    /\ last' = Op("analog_write_start", cl, attributes)
            IN  effects(Analog_write_start(Dev, cl, St, attributes))
    /\ written' = <<>>
    /\ target' = <<>>
    /\ budget' = budget - 1
    /\ UNCHANGED <<adapter, manufacturer, manuf, constructed, registry>>

\* An awaited manufacturer write completes: the dict reaches the device and
\* the write_attributes call that awaited it resumes and returns SUCCESS.
SendComplete ==
    /\ \E i \in DOMAIN pending :
            /\ written' = <<pending[i].attrs>>
            /\ target' = <<pending[i].target>>
            /\ last' = Op("send_complete", pending[i].cluster, <<>>)
            /\ pending' = SubSeq(pending, 1, i - 1) \o SubSeq(pending, i + 1, Len(pending))
    /\ result' = Returned(<<StatusRecord("SUCCESS", "")>>)
    /\ events' = <<>>
    /\ UNCHANGED <<adapter, manufacturer, manuf, cache, budget, constructed, registry>>

\* A device of the adapter is constructed: its manufacturer cluster
\* registers itself.  Constructing DeviceA anew replaces the device followed
\* by a fresh one.
ConstructDevice ==
    /\ budget > 0
    /\ \E ieee \in Ieees :
            /\ constructed' = Append(constructed, ieee)
            /\ registry' = ManufCluster_init(registry, ieee, Len(constructed) + 1)
            /\ cache' = IF ieee = DeviceA THEN InitCache(adapter) ELSE cache
            /\ manuf' = IF ieee = DeviceA THEN EmptyDict ELSE manuf
            /\ pending' = IF ieee = DeviceA THEN <<>> ELSE pending
            /\ last' = Op("construct", ieee, <<>>)
    /\ events' = <<>>
    /\ written' = <<>>
    /\ target' = <<>>
    /\ result' = NoResult
    /\ budget' = budget - 1
    /\ UNCHANGED <<adapter, manufacturer>>

Next ==
    \/ DeviceReport
    \/ ThermostatWrite
    \/ OnOffWrite
    \/ AnalogWrite
    \/ OnOffCommand
    \/ ConstructDevice
    \/ AnalogWriteStart
    \/ SendComplete

Spec == Init /\ [][Next]_vars

SpecSaswell == InitOf({"saswell"}) /\ [][Next]_vars

SpecMaxsmart == InitOf({"maxsmart"}) /\ [][Next]_vars

\* A Maxsmart device that has been constructed and has reported its away
\* data once.
InitAwayReported ==
    /\ adapter = "maxsmart"
    /\ manufacturer \in Manufacturers(adapter)
    /\ \E value \in ReportValues("maxsmart")[MAXSMART_AWAY_DATA_ATTR] :
         LET dev == [adapter |-> "maxsmart", manufacturer |-> manufacturer]
             st0 == [cache |-> InitCache("maxsmart"), events |-> <<>>]
             effects(st) ==
                /\ manuf = One(MAXSMART_AWAY_DATA_ATTR, value)
                /\ cache = st.cache
                /\ events = st.events
                /\ last = Op("report", "", <<Num(MAXSMART_AWAY_DATA_ATTR), value>>)
         IN  effects(PublishAll(dev, st0, ManufUpdate(dev, MAXSMART_AWAY_DATA_ATTR, value)))
    /\ written = <<>>
    /\ result = NoResult
    /\ budget = MaxSteps
    /\ constructed \in {<<DeviceA>>} \cup {<<i, DeviceA>> : i \in Ieees \ {DeviceA}}
    /\ registry = Registered(constructed)
    /\ target = <<>>
    /\ pending = <<>>

SpecMaxsmartAway == InitAwayReported /\ [][Next]_vars

SpecElectsmart == InitOf({"electsmart"}) /\ [][Next]_vars

SpecME167 == InitOf({"me167"}) /\ [][Next]_vars

-----------------------------------------------------------------------------
\* Properties.

\* The last operation was a report of the manufacturer attribute attrid.
Reported(attrid) == last.op = "report" /\ last.args[1] = Num(attrid)

\* The last operation was a write of the single attribute attr to cluster cl.
Wrote(op, attr) ==
    last.op = op /\ Len(last.args) = 1 /\ last.args[1][1] = attr

\* r is round(n / d) for integers n and d > 0: the nearest integer, the even
\* one of the two when n / d lies halfway.
IsRound(r, n, d) ==
    /\ 2 * Abs(d * r - n) <= d
    /\ 2 * Abs(d * r - n) = d => r % 2 = 0

\* C1: Saswell: a write of occupied_heating_setpoint = s issues the single
\* manufacturer write {SASWELL_TARGET_TEMP_ATTR: round(s / 10)} (2150 gives
\* 215); writing back the setpoint 10 * x that a report of x produced emits x.
C1_SaswellSetpointWrite ==
    (adapter = "saswell" /\ Wrote("thermostat_write", "occupied_heating_setpoint")) =>
        LET s == last.args[1][2]
        IN  /\ result = Returned(<<StatusRecord("SUCCESS", "")>>)
            /\ Len(written) = 1
            /\ DOMAIN written[1] = {SASWELL_TARGET_TEMP_ATTR}
            /\ written[1][SASWELL_TARGET_TEMP_ATTR][2] = 1
            /\ IsRound(written[1][SASWELL_TARGET_TEMP_ATTR][1], s[1], 10 * s[2])
            /\ s = Num(2150) => written[1][SASWELL_TARGET_TEMP_ATTR] = Num(215)
            /\ \A x \in ReportValues("saswell")[SASWELL_TARGET_TEMP_ATTR] :
                    s = Mul(x, 10) => written[1][SASWELL_TARGET_TEMP_ATTR] = x

\* C1 happens: the device reported the target 215, the cluster cached 2150,
\* and the controller wrote the cached setpoint back.
C1_Witness ==
    /\ adapter = "saswell"
    /\ Wrote("thermostat_write", "occupied_heating_setpoint")
    /\ SASWELL_TARGET_TEMP_ATTR \in DOMAIN manuf
    /\ manuf[SASWELL_TARGET_TEMP_ATTR] = Num(215)
    /\ Get(cache["SaswellThermostatCluster"], "occupied_heating_setpoint") = Num(2150)
    /\ last.args[1][2] = Num(2150)
    /\ written = <<One(SASWELL_TARGET_TEMP_ATTR, Num(215))>>

\* C2: Saswell: after a report of SASWELL_ROOM_TEMP_ATTR with raw value v the
\* Thermostat's cached local_temperature is 10 * v (202 gives 2020).
C2_SaswellRoomTemp ==
    (adapter = "saswell" /\ Reported(SASWELL_ROOM_TEMP_ATTR)) =>
        LET v == last.args[2]
            c == cache["SaswellThermostatCluster"]
        IN  /\ "local_temperature" \in DOMAIN c
            /\ c["local_temperature"] = Num(10 * v[1])
            /\ v = Num(202) => c["local_temperature"] = Num(2020)

\* C2 happens: the device reported the room temperature 202.
C2_Witness ==
    /\ adapter = "saswell"
    /\ Reported(SASWELL_ROOM_TEMP_ATTR)
    /\ last.args[2] = Num(202)
    /\ manuf[SASWELL_ROOM_TEMP_ATTR] = Num(202)
    /\ Get(cache["SaswellThermostatCluster"], "local_temperature") = Num(2020)

\* C3: Maxsmart: after a MAXSMART_MODE_ATTR report of 2 (away) that follows an
\* away-data report, the Thermostat's cache holds system_mode = Heat,
\* occupancy = Unoccupied, operation_preset = Away and an
\* occupied_heating_setpoint equal to the cached occupied_heating_setpoint_away,
\* which is byte 2 of the last away data / 2 * 100.
C3_MaxsmartAwayMode ==
    (/\ adapter = "maxsmart"
     /\ Reported(MAXSMART_MODE_ATTR)
     /\ last.args[2] = Num(2)
     /\ MAXSMART_AWAY_DATA_ATTR \in DOMAIN manuf) =>
        LET c == cache["MaxsmartThermostat"]
        IN  /\ Get(c, "system_mode") = Num(SystemMode_Heat)
            /\ Get(c, "occupancy") = Num(Occupancy_Unoccupied)
            /\ Get(c, "operation_preset") = Num(Preset_Away)
            /\ Get(c, "occupied_heating_setpoint") = Get(c, "occupied_heating_setpoint_away")
            /\ Get(c, "occupied_heating_setpoint")
                    = Mul(Frac(manuf[MAXSMART_AWAY_DATA_ATTR][3], 2), 100)

\* C3 happens: the device reported away data whose byte 2 is 35 and then the
\* mode 2; the setpoint is 1750.
C3_Witness ==
    /\ adapter = "maxsmart"
    /\ Reported(MAXSMART_MODE_ATTR)
    /\ last.args[2] = Num(2)
    /\ MAXSMART_AWAY_DATA_ATTR \in DOMAIN manuf
    /\ manuf[MAXSMART_AWAY_DATA_ATTR][3] = 35
    /\ Get(cache["MaxsmartThermostat"], "occupied_heating_setpoint") = Num(1750)
    /\ Get(cache["MaxsmartThermostat"], "operation_preset") = Num(Preset_Away)

\* An attribute id that is in none of the adapter's tables: UnknownAttr is
\* in no adapter's; ZONNSMART_WINDOW_DETECT_ATTR is named by the Zonnsmart
\* manufacturer cluster but neither direct-mapped nor special-cased.
Untabled(ad, attrid) ==
    \/ attrid = Num(UnknownAttr)
    \/ ad = "zonnsmart" /\ attrid = Num(ZONNSMART_WINDOW_DETECT_ATTR)

\* C4: for every adapter's manufacturer cluster, a device report whose
\* attribute id is in none of the adapter's tables stores the raw value in the
\* manufacturer cluster's cache, publishes no bus event, raises no exception
\* and leaves the cache of every synthetic cluster unchanged.
C4_UnknownReport ==
    [][(last'.op = "report" /\ Untabled(adapter, last'.args[1])) =>
            /\ last'.args[1][1] \in DOMAIN manuf'
            /\ manuf'[last'.args[1][1]] = last'.args[2]
            /\ events' = <<>>
            /\ result'.kind # "raise"
            /\ cache' = cache]_vars

\* C4 happens: an Avatto device whose clusters hold reported values reports
\* the unknown attribute with value 7.
C4_Witness ==
    /\ adapter = "avatto"
    /\ Reported(UnknownAttr)
    /\ manuf[UnknownAttr] = Num(7)
    /\ events = <<>>
    /\ cache # InitCache(adapter)
    /\ budget = MaxSteps - 2

\* C5: Electsmart: writing back the occupied_heating_setpoint that the
\* Thermostat cache holds after a report of ELECTSMART_TARGET_TEMP_ATTR = x
\* emits the single manufacturer write {ELECTSMART_TARGET_TEMP_ATTR: x}.
C5_ElectsmartSetpointRoundTrip ==
    (/\ adapter = "electsmart"
     /\ Wrote("thermostat_write", "occupied_heating_setpoint")
     /\ ELECTSMART_TARGET_TEMP_ATTR \in DOMAIN manuf
     /\ last.args[1][2] = Get(cache["ElectsmartThermostat"], "occupied_heating_setpoint")) =>
        written = <<One(ELECTSMART_TARGET_TEMP_ATTR, manuf[ELECTSMART_TARGET_TEMP_ATTR])>>

\* C6: ME167: for each mode byte m in {0, 1} the device reported, writing
\* back the operation_preset that the mode report stored in the Thermostat
\* cache emits the single manufacturer write {ME167_MODE_ATTR: m}.
C6_ME167PresetRoundTrip ==
    (/\ adapter = "me167"
     /\ Wrote("thermostat_write", "operation_preset")
     /\ ME167_MODE_ATTR \in DOMAIN manuf
     /\ manuf[ME167_MODE_ATTR] \in {Num(0), Num(1)}
     /\ last.args[1][2] = Get(cache["ME167Thermostat"], "operation_preset")) =>
        written = <<One(ME167_MODE_ATTR, manuf[ME167_MODE_ATTR])>>

\* The mode attribute of an adapter and the mode bytes it declares.
ModeAttrOf(ad) ==
    CASE ad = "maxsmart" -> MAXSMART_MODE_ATTR
      [] ad = "etop" -> ETOP_PRESET_ATTR
      [] ad = "avatto" -> AVATTO_MODE_ATTR
      [] ad = "electsmart" -> ELECTSMART_MODE_ATTR

DeclaredModes(ad) ==
    IF ad \in {"maxsmart", "etop"} THEN {Num(0), Num(1), Num(2)} ELSE {Num(0), Num(1)}

\* The operation_preset each declared mode byte decodes to.
PresetOfMode(ad) ==
    CASE ad = "maxsmart" -> <<Preset_Schedule, Preset_Manual, Preset_Away>>
      [] ad = "etop" -> <<Preset_Manual, Preset_Away, Preset_Schedule>>
      [] ad \in {"avatto", "electsmart"} -> <<Preset_Manual, Preset_Schedule>>

\* C7: Maxsmart and Etop (mode bytes 0, 1, 2), Avatto and Electsmart (mode
\* bytes 0, 1): a report of a declared mode byte m stores an operation_preset
\* that no other declared byte of the adapter stores, and a write of that
\* operation_preset right after the report emits one manufacturer write that
\* holds the adapter's mode attribute with value m.
C7_ModeRoundTrip ==
    [][/\ (/\ adapter \in {"maxsmart", "etop", "avatto", "electsmart"}
           /\ last'.op = "report"
           /\ last'.args[1] = Num(ModeAttrOf(adapter))
           /\ last'.args[2] \in DeclaredModes(adapter)) =>
                LET decode == PresetOfMode(adapter)
                IN  /\ \A cl \in Range(Replacement(adapter).thermostat) :
                            Get(cache'[cl], "operation_preset")
                                = Num(decode[last'.args[2][1] + 1])
                    /\ \A i, j \in DOMAIN decode : decode[i] = decode[j] => i = j
       /\ (/\ adapter \in {"maxsmart", "etop", "avatto", "electsmart"}
           /\ last.op = "report"
           /\ last.args[1] = Num(ModeAttrOf(adapter))
           /\ last.args[2] \in DeclaredModes(adapter)
           /\ last'.op = "thermostat_write"
           /\ Len(last'.args) = 1
           /\ last'.args[1][1] = "operation_preset"
           /\ last'.args[1][2] = Get(cache[last'.cluster], "operation_preset")) =>
                /\ Len(written') = 1
                /\ ModeAttrOf(adapter) \in DOMAIN written'[1]
                /\ written'[1][ModeAttrOf(adapter)] = last.args[2]
                /\ result' = Returned(<<StatusRecord("SUCCESS", "")>>)]_vars

\* C7 happens: an Etop device reported the preset byte 1 (away), the
\* Thermostat cached Preset.Away, and the controller wrote it back.
C7_Witness ==
    /\ adapter = "etop"
    /\ Wrote("thermostat_write", "operation_preset")
    /\ ETOP_PRESET_ATTR \in DOMAIN manuf
    /\ manuf[ETOP_PRESET_ATTR] = Num(1)
    /\ Get(cache["EtopThermostat"], "operation_preset") = Num(Preset_Away)
    /\ last.args[1][2] = Num(Preset_Away)
    /\ written = <<One(ETOP_PRESET_ATTR, Num(1))>>

\* C8: Maxsmart: a write of occupied_heating_setpoint = s returns without
\* raising and emits exactly one vendor attribute, chosen by the cached
\* operation_preset: MAXSMART_TARGET_TEMP_AUTO_ATTR with round(s / 100 * 2)
\* when the preset is Schedule, Boost or not cached,
\* MAXSMART_TARGET_TEMP_MAN_ATTR with round(s / 100 * 2) when it is Manual,
\* the MAXSMART_AWAY_DATA_ATTR struct when it is Away; the cache holds no
\* other preset after device reports.
C8_MaxsmartSetpointTarget ==
    (adapter = "maxsmart" /\ Wrote("thermostat_write", "occupied_heating_setpoint")) =>
        LET preset == Get(cache["MaxsmartThermostat"], "operation_preset")
            s == last.args[1][2]
            scaled(attr) ==
                /\ DOMAIN written[1] = {attr}
                /\ written[1][attr][2] = 1
                /\ IsRound(written[1][attr][1], s[1], 50 * s[2])
        IN  /\ result = Returned(<<StatusRecord("SUCCESS", "")>>)
            /\ Len(written) = 1
            /\ CASE preset \in {None, Num(Preset_Schedule), Num(Preset_Boost)} ->
                        scaled(MAXSMART_TARGET_TEMP_AUTO_ATTR)
                  [] preset = Num(Preset_Manual) -> scaled(MAXSMART_TARGET_TEMP_MAN_ATTR)
                  [] preset = Num(Preset_Away) ->
                        /\ DOMAIN written[1] = {MAXSMART_AWAY_DATA_ATTR}
                        /\ Len(written[1][MAXSMART_AWAY_DATA_ATTR]) = 8
                  [] OTHER -> FALSE

\* C9: for every OnOff-based synthetic cluster, a write_attributes whose
\* attributes are OnOff attributes other than on_off, which map_attribute
\* translates into no manufacturer attribute, returns one FAILURE status
\* record per requested attribute and issues no manufacturer write.
C9_OnOffUnsupportedWrite ==
    (/\ last.op = "onoff_write"
     /\ \A i \in DOMAIN last.args : last.args[i][1] \notin {"on_off", UnknownKey}) =>
        /\ result = Returned([i \in DOMAIN last.args |->
                                StatusRecord("FAILURE", last.args[i][1])])
        /\ written = <<>>

\* C10: for every AnalogOutput-based synthetic cluster, a write_attributes
\* given an attribute id the cluster does not define returns a FAILURE status
\* record for that attribute and sends nothing to the device for it.
C10_AnalogUnknownWrite ==
    (/\ last.op = "analog_write"
     /\ \E i \in DOMAIN last.args : last.args[i][1] = UnknownKey) =>
        /\ result.kind = "return"
        /\ StatusRecord("FAILURE", UnknownKey) \in Range(result.records)
        /\ (\A i \in DOMAIN last.args : last.args[i][1] = UnknownKey) => written = <<>>

\* C11: for every OnOff-based synthetic cluster, a command whose id is not
\* 0x00 (off), 0x01 (on) or 0x02 (toggle) returns [command_id,
\* UNSUP_CLUSTER_COMMAND], issues no manufacturer write and changes no cached
\* attribute of any cluster.
C11_UnsupportedCommand ==
    [][(last'.op = "onoff_command" /\ last'.args[1][1] \notin {0, 1, 2}) =>
            /\ result' = CommandReturned(last'.args[1][1], "UNSUP_CLUSTER_COMMAND")
            /\ written' = <<>>
            /\ cache' = cache
            /\ manuf' = manuf]_vars

\* C11 happens: a Saswell device reported its child lock on, and the
\* controller then sent command 0x40 to the child-lock cluster.
C11_Witness ==
    /\ adapter = "saswell"
    /\ last.op = "onoff_command"
    /\ last.cluster = "SaswellChildLock"
    /\ last.args = <<Num(64)>>
    /\ Get(cache["SaswellChildLock"], "on_off") = Num(1)
    /\ result = CommandReturned(64, "UNSUP_CLUSTER_COMMAND")
    /\ written = <<>>

\* The other temperature a Saswell running-state computation needs for a
\* report of attrid.
OtherTemperature(attrid) ==
    IF attrid = Num(SASWELL_ROOM_TEMP_ATTR)
    THEN "occupied_heating_setpoint" ELSE "local_temperature"

MaxsmartHalved ==
    ("comfort_heating_setpoint" :> MAXSMART_COMFORT_TEMP_ATTR)
    @@ ("eco_heating_setpoint" :> MAXSMART_ECO_TEMP_ATTR)
    @@ ("window_detection_temp" :> MAXSMART_WINDOW_DETECT_TEMP_ATTR)

\* C13: Maxsmart: for comfort_heating_setpoint, eco_heating_setpoint and
\* window_detection_temp, writing back the value the Thermostat cache holds
\* after a device report of raw x emits the single manufacturer write of the
\* same raw x to the same vendor attribute.
C13_MaxsmartHalvedRoundTrip ==
    \A a \in DOMAIN MaxsmartHalved :
        (/\ adapter = "maxsmart"
         /\ Wrote("thermostat_write", a)
         /\ MaxsmartHalved[a] \in DOMAIN manuf
         /\ last.args[1][2] = Get(cache["MaxsmartThermostat"], a)) =>
            written = <<One(MaxsmartHalved[a], manuf[MaxsmartHalved[a]])>>

\* The temperature-calibration AnalogOutput cluster of each adapter that
\* mirrors device reports, and the vendor attribute behind it.
CalibrationOf ==
    ("saswell" :> <<"SaswellTempCalibration", SASWELL_TEMP_CORRECTION_ATTR>>)
    @@ ("maxsmart" :> <<"MaxsmartTempCalibration", MAXSMART_TEMP_CALIBRATION_ATTR>>)
    @@ ("avatto" :> <<"AvattoTempCalibration", AVATTO_TEMP_CALIBRATION_ATTR>>)
    @@ ("electsmart" :> <<"ElectsmartTempCalibration", ELECTSMART_TEMP_CALIBRATION_ATTR>>)
    @@ ("rtitek" :> <<"RtiTempCalibration", RTI_TEMP_CALIBRATION_ATTR>>)
    @@ ("rtitek2" :> <<"Rti2TempCalibration", RTI2_TEMP_CALIBRATION_ATTR>>)

\* The step writes back, to the adapters' calibration clusters in ads, the
\* present_value that the report of raw calibration just before produced.
CalibrationWriteBack(ads) ==
    /\ adapter \in ads
    /\ last.op = "report"
    /\ last.args[1] = Num(CalibrationOf[adapter][2])
    /\ last'.op = "analog_write"
    /\ last'.cluster = CalibrationOf[adapter][1]
    /\ Len(last'.args) = 1
    /\ last'.args[1][1] = "present_value"
    /\ last'.args[1][2] = Get(cache[last'.cluster], "present_value")

\* C14: Saswell, Maxsmart, Avatto, Electsmart, RtiTek, RtiTek2: when the
\* device reports raw calibration r and the controller then writes back the
\* present_value that the report produced in the calibration cluster, the
\* single manufacturer write carries r on the calibration attribute.
C14_CalibrationRoundTrip ==
    [][CalibrationWriteBack(DOMAIN CalibrationOf) =>
            written' = <<One(CalibrationOf[adapter][2], last.args[2])>>]_vars

\* C15: apart from the defaults set at construction, the cached attributes of
\* the synthetic clusters change only while a device report is fanned out
\* over the buses: no write_attributes and no command of the controller
\* changes a cached attribute.
C15_CacheOnlyByReports ==
    [][cache' # cache => last'.op \in {"report", "construct"}]_vars

\* The last operation was a write_attributes or a command of the controller
\* on a synthetic cluster of DeviceA.
ControllerOp == last.op \in {"thermostat_write", "onoff_write", "analog_write", "onoff_command"}

\* C16: with the devices of the adapter constructed in any order, every
\* manufacturer write that a write_attributes or command on a synthetic
\* cluster of DeviceA issues goes to the registry entry for DeviceA's ieee,
\* which is DeviceA's own manufacturer cluster, and to no manufacturer
\* cluster registered for another ieee.
C16_WritesRoutedToOwnDevice ==
    ControllerOp =>
        /\ DOMAIN target = DOMAIN written
        /\ \A k \in DOMAIN target :
                /\ target[k] = registry[DeviceA]
                /\ target[k] = InstanceOf(constructed, DeviceA)
                /\ \A i \in DOMAIN registry \ {DeviceA} : target[k] # registry[i]

\* C16 happens: a second device was constructed after DeviceA, and an OnOff
\* write on DeviceA reached DeviceA's manufacturer cluster, instance 1.
C16_Witness ==
    /\ Len(constructed) = 2
    /\ constructed[1] = DeviceA
    /\ constructed[2] # DeviceA
    /\ registry[constructed[2]] = 2
    /\ Wrote("onoff_write", "on_off")
    /\ Len(written) = 1
    /\ target = <<1>>

\* The registry holds, for every ieee constructed, the manufacturer cluster
\* constructed last for it.
RegistryCurrent(reg, seq) ==
    /\ DOMAIN reg = Range(seq)
    /\ \A i \in DOMAIN reg : reg[i] = InstanceOf(seq, i)

\* C17: the registry of the adapter's module changes only when a
\* manufacturer cluster is constructed, which sets registry[ieee] to the new
\* instance and leaves the other entries alone; no report, write or command
\* changes it, its key set never shrinks, and registry[ieee] is always the
\* manufacturer cluster constructed last for that ieee.
C17_RegistryOnlyByConstruction ==
    /\ RegistryCurrent(registry, constructed)
    /\ [][/\ last'.op # "construct" => registry' = registry
          /\ last'.op = "construct" =>
                /\ registry'[last'.cluster] = Len(constructed')
                /\ \A i \in DOMAIN registry \ {last'.cluster} :
                        i \in DOMAIN registry' /\ registry'[i] = registry[i]
          /\ DOMAIN registry \subseteq DOMAIN registry'
          /\ RegistryCurrent(registry', constructed')]_vars

\* C17 happens: the second device was constructed, then DeviceA, then the
\* second device again, and a report of DeviceA followed; the registry holds
\* instance 3 for the second device and instance 2 for DeviceA.
C17_Witness ==
    /\ Len(constructed) = 3
    /\ constructed[1] = constructed[3]
    /\ constructed[2] = DeviceA
    /\ registry = (DeviceA :> 2) @@ (constructed[3] :> 3)
    /\ last.op = "report"

\* For each Maxsmart mode byte, the vendor attribute that reports the
\* mode's setpoint and the Thermostat attribute that caches it.
MaxsmartPerMode ==
    <<<<MAXSMART_TARGET_TEMP_AUTO_ATTR, "occupied_heating_setpoint_auto">>,
      <<MAXSMART_TARGET_TEMP_MAN_ATTR, "occupied_heating_setpoint_manual">>,
      <<MAXSMART_AWAY_DATA_ATTR, "occupied_heating_setpoint_away">>>>

\* Every operation on the device since its construction was a report of a
\* distinct attribute among attrs.
OnlyReportsOf(attrs) ==
    /\ last.op = "report"
    /\ DOMAIN manuf \subseteq attrs
    /\ Cardinality(DOMAIN manuf) = MaxSteps - budget

\* C18: Maxsmart: after mode-byte, auto-target, manual-target and away-data
\* reports that contain a mode report and a report of the setpoint of the
\* mode reported last, the cached occupied_heating_setpoint equals the cached
\* setpoint of that mode: occupied_heating_setpoint_auto in Schedule (0),
\* occupied_heating_setpoint_manual in Manual (1),
\* occupied_heating_setpoint_away in Away (2).
C18_MaxsmartActiveSetpoint ==
    (/\ adapter = "maxsmart"
     /\ OnlyReportsOf({MAXSMART_MODE_ATTR, MAXSMART_TARGET_TEMP_AUTO_ATTR,
                       MAXSMART_TARGET_TEMP_MAN_ATTR, MAXSMART_AWAY_DATA_ATTR})
     /\ MAXSMART_MODE_ATTR \in DOMAIN manuf
     /\ manuf[MAXSMART_MODE_ATTR] \in {Num(0), Num(1), Num(2)}
     /\ MaxsmartPerMode[manuf[MAXSMART_MODE_ATTR][1] + 1][1] \in DOMAIN manuf) =>
        LET c == cache["MaxsmartThermostat"]
            own == MaxsmartPerMode[manuf[MAXSMART_MODE_ATTR][1] + 1][2]
        IN  /\ Get(c, own) # None
            /\ Get(c, "occupied_heating_setpoint") = Get(c, own)

\* C19: Maxsmart: once a mode-byte report of 1 (manual) and a manual-target
\* report of 0 have both been processed, in either order and with no later
\* mode or manual-target report, the cached system_mode is Off.
C19_MaxsmartOffEcho ==
    (/\ adapter = "maxsmart"
     /\ OnlyReportsOf({MAXSMART_MODE_ATTR, MAXSMART_TARGET_TEMP_MAN_ATTR})
     /\ DOMAIN manuf = {MAXSMART_MODE_ATTR, MAXSMART_TARGET_TEMP_MAN_ATTR}
     /\ manuf[MAXSMART_MODE_ATTR] = Num(1)
     /\ manuf[MAXSMART_TARGET_TEMP_MAN_ATTR] = Num(0)) =>
        Get(cache["MaxsmartThermostat"], "system_mode") = Num(SystemMode_Off)

\* The attribute that carries the mode byte of each adapter with a mode decoder.
ModeByteOf(ad) ==
    CASE ad \in {"maxsmart", "me167", "avatto", "electsmart"} -> MAXSMART_MODE_ATTR
      [] ad = "etop" -> ETOP_PRESET_ATTR
      [] ad = "rtitek" -> RTI_MODE_ATTR

DecoderConsistent(c) ==
    /\ (Get(c, "programing_oper_mode") = Num(ProgrammingOperationMode_Schedule_programming_mode))
         <=> (Get(c, "operation_preset") = Num(Preset_Schedule))
    /\ (Get(c, "occupancy") = Num(Occupancy_Unoccupied))
         <=> (Get(c, "operation_preset") = Num(Preset_Away))

\* C20: Maxsmart, Etop, ME167, Avatto, Electsmart and RtiTek: after device
\* reports that include a report of the mode byte, the cached
\* programing_oper_mode is Schedule_programming_mode exactly when the cached
\* operation_preset is Schedule, and the cached occupancy is Unoccupied exactly
\* when the cached operation_preset is Away.
C20_DecoderConsistent ==
    (/\ adapter \in {"maxsmart", "etop", "me167", "avatto", "electsmart", "rtitek"}
     /\ last.op = "report"
     /\ ModeByteOf(adapter) \in DOMAIN manuf) =>
        DecoderConsistent(cache[Replacement(adapter).thermostat[1]])

C20_Witness ==
    /\ adapter = "etop"
    /\ last.op = "report"
    /\ ETOP_PRESET_ATTR \in DOMAIN manuf
    /\ manuf[ETOP_PRESET_ATTR] = Num(1)
    /\ Get(cache["EtopThermostat"], "operation_preset") = Num(Preset_Away)
    /\ Get(cache["EtopThermostat"], "occupancy") = Num(Occupancy_Unoccupied)
    /\ Get(cache["EtopThermostat"], "programing_oper_mode") = Num(ProgrammingOperationMode_Simple)

\* The bytes (1-based) of the away struct that encode a value V of a field.
AwayEncoding(field, V) ==
    CASE field = "oper_time" -> (1 :> PyInt(V) % 256) @@ (2 :> PyInt(V) \div 256)
      [] field = "temperature" -> (3 :> PyInt(Mul(V, 2)))
      [] field = "minute" -> (4 :> PyInt(V))
      [] field = "hour" -> (5 :> PyInt(V))
      [] field = "day" -> (6 :> PyInt(V))
      [] field = "month" -> (7 :> PyInt(V))
      [] field = "year" -> (8 :> PyInt(Add(V, -2000)))

\* C21: Maxsmart: a write of present_value = V to one away cluster right
\* after the device reported the away data S emits one write of
\* MAXSMART_AWAY_DATA_ATTR whose 8-byte struct holds the encoding of V in the
\* byte(s) of the written field (bytes 0-1 operating time low/high, byte 2
\* temperature * 2, 3 minute, 4 hour, 5 day, 6 month, 7 year - 2000) and the
\* bytes of S everywhere else.
C21_AwayFieldWrite ==
    [][(/\ adapter = "maxsmart"
        /\ last.op = "report"
        /\ last.args[1] = Num(MAXSMART_AWAY_DATA_ATTR)
        /\ last'.op = "analog_write"
        /\ last'.cluster \in DOMAIN AwayField
        /\ Len(last'.args) = 1
        /\ last'.args[1][1] = "present_value") =>
            /\ Len(written') = 1
            /\ DOMAIN written'[1] = {MAXSMART_AWAY_DATA_ATTR}
            /\ LET data == written'[1][MAXSMART_AWAY_DATA_ATTR]
                   enc == AwayEncoding(AwayField[last'.cluster], last'.args[1][2])
               IN  /\ Len(data) = 8
                   /\ \A i \in 1..8 :
                        data[i] = IF i \in DOMAIN enc THEN enc[i] ELSE last.args[2][i]]_vars

\* C21 happens: the device reported away data, the controller wrote 3/2 to
\* the away temperature and the struct sent holds 3 in byte 2.
C21_Witness ==
    /\ adapter = "maxsmart"
    /\ MAXSMART_AWAY_DATA_ATTR \in DOMAIN manuf
    /\ manuf[MAXSMART_AWAY_DATA_ATTR] = <<1, 2, 35, 0, 8, 1, 1, 25>>
    /\ last.op = "analog_write"
    /\ last.cluster = "MaxsmartAwayTemperature"
    /\ last.args = <<<<"present_value", Frac(3, 2)>>>>
    /\ Len(written) = 1
    /\ written[1] = One(MAXSMART_AWAY_DATA_ATTR, <<1, 2, 3, 0, 8, 1, 1, 25>>)

\* A write of present_value alone to an away cluster was started.
AwayWriteStarted(op) ==
    /\ op.op = "analog_write_start"
    /\ op.cluster \in DOMAIN AwayField
    /\ Len(op.args) = 1
    /\ op.args[1][1] = "present_value"

\* C22: Maxsmart: an away cluster write caches its present_value and
\* composes the away struct before it suspends on the manufacturer write, so
\* when a write to another away field is started right after it, with the
\* first send still awaited and no away-data report in between, the struct
\* the second write composes carries the first write's value in the first
\* write's field.
C22_AwayWritesOverlap ==
    [][(/\ adapter = "maxsmart"
        /\ AwayWriteStarted(last)
        /\ pending # <<>>
        /\ pending[Len(pending)].cluster = last.cluster
        /\ AwayWriteStarted(last')
        /\ last'.cluster # last.cluster) =>
            /\ Get(cache[last.cluster], "present_value") = last.args[1][2]
            /\ Len(pending') = Len(pending) + 1
            /\ pending'[Len(pending')].cluster = last'.cluster
            /\ LET data == pending'[Len(pending')].attrs[MAXSMART_AWAY_DATA_ATTR]
                   enc == AwayEncoding(AwayField[last.cluster], last.args[1][2])
               IN  \A i \in DOMAIN enc : data[i] = enc[i]]_vars

\* C22 happens: after an away-data report, writes of 2 to the away month and
\* then of 3/2 to the away temperature were started; both sends are still
\* awaited and the second struct holds month 2.
C22_Witness ==
    /\ adapter = "maxsmart"
    /\ MAXSMART_AWAY_DATA_ATTR \in DOMAIN manuf
    /\ manuf[MAXSMART_AWAY_DATA_ATTR] = <<1, 2, 35, 0, 8, 1, 1, 25>>
    /\ Len(pending) = 2
    /\ pending[1].cluster = "MaxsmartAwayMonth"
    /\ pending[1].attrs = One(MAXSMART_AWAY_DATA_ATTR, <<1, 2, 35, 0, 8, 1, 2, 25>>)
    /\ pending[2].cluster = "MaxsmartAwayTemperature"
    /\ pending[2].attrs = One(MAXSMART_AWAY_DATA_ATTR, <<1, 2, 3, 0, 8, 1, 2, 25>>)

\* The direct-mapped attributes of an adapter with a guard, and the guard.
GuardedAttrs(ad) ==
    CASE ad = "avatto" -> {AVATTO_TEMPERATURE_ATTR, AVATTO_TARGET_TEMP_ATTR}
      [] ad = "rtitek" -> DOMAIN RtiManufCluster_DIRECT_MAPPED_ATTRS(Num(0))
      [] ad = "rtitek2" -> DOMAIN Rti2ManufCluster_DIRECT_MAPPED_ATTRS(Num(0))

GuardOf(ad) == IF ad = "avatto" THEN Num(500) ELSE Num(60000)

\* C23: Avatto, RtiTek and RtiTek2: a report of a direct-mapped attribute
\* with a raw value at or above the adapter's guard (500 for Avatto, 60000
\* for RtiTek and RtiTek2) raises no exception, stores the raw value in the
\* manufacturer cluster's cache and changes no attribute of any synthetic
\* cluster.
C23_OutOfRangeIgnored ==
    [][(/\ adapter \in {"avatto", "rtitek", "rtitek2"}
        /\ last'.op = "report"
        /\ last'.args[1][1] \in GuardedAttrs(adapter)
        /\ Geq(last'.args[2], GuardOf(adapter))) =>
            /\ result'.kind # "raise"
            /\ manuf'[last'.args[1][1]] = last'.args[2]
            /\ cache' = cache]_vars

\* C24: ME167: after a device report of ME167_TEMP_CALIBRATION_ATTR with
\* value v, the cached present_value of the calibration AnalogOutput cluster
\* ME167TempCalibration is v.
C24_ME167CalibrationMirror ==
    (adapter = "me167" /\ Reported(ME167_TEMP_CALIBRATION_ATTR)) =>
        Get(cache["ME167TempCalibration"], "present_value") = last.args[2]

ZonnsmartSystemMode(caches) == Get(caches["ZONNSMARTThermostat"], "system_mode")

\* C25: Zonnsmart: the cached system_mode is Off exactly when the most
\* recently processed report among ZONNSMART_MODE_ATTR and
\* ZONNSMART_HEATING_STOPPING was ZONNSMART_HEATING_STOPPING = 1: it is not Off
\* on a fresh device, a mode-byte report sets it to Heat whatever heating-stop
\* value was reported before, a heating-stop report sets it to Off for 1 and
\* to Heat otherwise, and nothing else changes it.
C25_ZonnsmartSystemMode ==
    /\ (adapter = "zonnsmart" /\ last.op = "init") =>
            ZonnsmartSystemMode(cache) # Num(SystemMode_Off)
    /\ [][adapter = "zonnsmart" =>
            CASE last'.op = "report" /\ last'.args[1] = Num(ZONNSMART_MODE_ATTR) ->
                    ZonnsmartSystemMode(cache') = Num(SystemMode_Heat)
              [] last'.op = "report" /\ last'.args[1] = Num(ZONNSMART_HEATING_STOPPING) ->
                    ZonnsmartSystemMode(cache') =
                        IF last'.args[2] = Num(1) THEN Num(SystemMode_Off)
                        ELSE Num(SystemMode_Heat)
              [] last'.op = "construct" /\ last'.cluster = DeviceA ->
                    ZonnsmartSystemMode(cache') # Num(SystemMode_Off)
              [] OTHER -> ZonnsmartSystemMode(cache') = ZonnsmartSystemMode(cache)]_vars

\* C25 happens: the device reported heating stop 1 and then a mode byte, and
\* system_mode is Heat.
C25_Witness ==
    /\ adapter = "zonnsmart"
    /\ Reported(ZONNSMART_MODE_ATTR)
    /\ ZONNSMART_HEATING_STOPPING \in DOMAIN manuf
    /\ manuf[ZONNSMART_HEATING_STOPPING] = Num(1)
    /\ ZonnsmartSystemMode(cache) = Num(SystemMode_Heat)

\* C26: Maxsmart: a write of one schedule_<day>_<n>_temperature or
\* schedule_<day>_<n>_hour attribute right after the device reported the
\* 18-byte schedule S of that day emits a single write to that day's schedule
\* attribute whose struct has byte 17 equal to the day index (Monday = 1 ...
\* Sunday = 7), the byte of the written field equal to round(value * 2) for a
\* temperature and round(value * 4) for an hour, and every other byte among
\* bytes 0..16 equal to the byte of S.
C26_ScheduleFieldWrite ==
    [][(/\ adapter = "maxsmart"
        /\ last.op = "report"
        /\ last.args[1][1] \in MAXSMART_SCHEDULE_MONDAY..MAXSMART_SCHEDULE_SUNDAY
        /\ last'.op = "thermostat_write"
        /\ Len(last'.args) = 1
        /\ \E y \in 1..17 :
                last'.args[1][1] =
                    ScheduleAttr(ScheduleDays[last.args[1][1] - MAXSMART_SCHEDULE_MONDAY + 1], y)) =>
            LET attrid == last.args[1][1]
                num == attrid - MAXSMART_SCHEDULE_MONDAY + 1
                y == CHOOSE f \in 1..17 : last'.args[1][1] = ScheduleAttr(ScheduleDays[num], f)
                V == last'.args[1][2]
            IN  /\ Len(written') = 1
                /\ DOMAIN written'[1] = {attrid}
                /\ Len(written'[1][attrid]) = 18
                /\ written'[1][attrid][18] = num
                /\ IsRound(written'[1][attrid][18 - y],
                           V[1] * (IF y % 2 = 1 THEN 2 ELSE 4), V[2])
                /\ \A i \in 1..17 :
                        i # 18 - y => written'[1][attrid][i] = last.args[2][i]]_vars

\* C26 happens: the device reported Sunday's schedule and the controller
\* wrote 21.5 to schedule_sunday_9_temperature: byte 0 of the struct sent is
\* 43 and byte 17 is 7.
C26_Witness ==
    /\ adapter = "maxsmart"
    /\ Wrote("thermostat_write", "schedule_sunday_9_temperature")
    /\ last.args[1][2] = Frac(43, 2)
    /\ MAXSMART_SCHEDULE_SUNDAY \in DOMAIN manuf
    /\ written = <<One(MAXSMART_SCHEDULE_SUNDAY,
                       <<43, 92, 44, 80, 36, 72, 44, 56, 36, 40, 44, 36, 36, 28, 44, 27, 38, 7>>)>>

\* The on_off value a command id asks for, given the cached on_off.
CommandValue(command_id, cached) ==
    CASE command_id = 0 -> Num(0)
      [] command_id = 1 -> Num(1)
      [] command_id = 2 -> IF cached = Num(0) THEN Num(1) ELSE Num(0)

\* C27: for every OnOff-based synthetic cluster, command 0x00 has the
\* effects of a write of on_off = False, command 0x01 those of a write of
\* on_off = True and command 0x02 (toggle) those of a write of the negation of
\* the cached on_off; a toggle while no on_off is cached returns FAILURE and
\* issues no write.
C27_OnOffCommands ==
    [][(last'.op = "onoff_command" /\ last'.args[1][1] \in {0, 1, 2}) =>
            LET cl == last'.cluster
                cached == Get(cache[cl], "on_off")
                same(out) ==
                    /\ written' = out.written
                    /\ cache' = out.st.cache
                    /\ out.result.kind = "return" =>
                            result' = CommandReturned(last'.args[1][1],
                                                      out.result.records[1].status)
            IN  IF last'.args[1][1] = 2 /\ cached = None
                THEN /\ result' = StatusReturned("FAILURE")
                     /\ written' = <<>>
                     /\ cache' = cache
                ELSE same(ClusterWrite(Dev, cl, St,
                            <<<<"on_off", CommandValue(last'.args[1][1], cached)>>>>))]_vars

\* C27 happens: a Saswell device reported its child lock on and the
\* controller toggled the child-lock cluster: child lock 0 was written.
C27_Witness ==
    /\ adapter = "saswell"
    /\ last.op = "onoff_command"
    /\ last.cluster = "SaswellChildLock"
    /\ last.args = <<Num(2)>>
    /\ Get(cache["SaswellChildLock"], "on_off") = Num(1)
    /\ written = <<One(SASWELL_CHILD_LOCK_ATTR, Num(0))>>

BoostAttrOf(ad) == IF ad = "maxsmart" THEN MAXSMART_BOOST_ATTR ELSE RTI_BOOST_ATTR

\* C28: Maxsmart and RtiTek: a boost-attribute report with value 0 changes
\* no attribute of the synthetic Thermostat, and once operation_preset is
\* Boost it stays Boost on this device until a mode-byte report is processed.
C28_BoostKept ==
    [][(adapter \in {"maxsmart", "rtitek"}) =>
           (LET th == Replacement(adapter).thermostat[1]
            IN  /\ (/\ last'.op = "report"
                    /\ last'.args[1] = Num(BoostAttrOf(adapter))
                    /\ last'.args[2] = Num(0)) => cache'[th] = cache[th]
                /\ (/\ Get(cache[th], "operation_preset") = Num(Preset_Boost)
                    /\ ~(last'.op = "report" /\ last'.args[1] = Num(ModeByteOf(adapter)))
                    /\ ~(last'.op = "construct" /\ last'.cluster = DeviceA)) =>
                        Get(cache'[th], "operation_preset") = Num(Preset_Boost))]_vars

\* C28 happens: a RtiTek device reported boost 1 and then boost 0, and
\* operation_preset is still Boost.
C28_Witness ==
    /\ adapter = "rtitek"
    /\ Reported(RTI_BOOST_ATTR)
    /\ last.args[2] = Num(0)
    /\ Get(cache["RtiThermostat"], "operation_preset") = Num(Preset_Boost)

\* The decoded alarm of a sensor: <<Under, Over>> as cached present_values.
AlarmInputs(caches, under, over) ==
    <<Get(caches[under], "present_value"), Get(caches[over], "present_value")>>

AlarmDecoded(value) ==
    <<IF value = Num(0) THEN Num(1) ELSE Num(0), IF value = Num(1) THEN Num(1) ELSE Num(0)>>

\* C29: temperature/humidity sensor: the temperature Under and Over alarm
\* inputs are never both True, and after a TUYA_ALARM_TEMP report they hold the
\* report's decoding (0 sets Under only, 1 sets Over only, any other value
\* clears both); the same holds for the humidity alarm inputs and
\* TUYA_ALARM_HUMIDITY.
C29_AlarmsExclusive ==
    adapter = "sensor" =>
        /\ AlarmInputs(cache, "TuyaAlarmTempUnder", "TuyaAlarmTempOver") # <<Num(1), Num(1)>>
        /\ AlarmInputs(cache, "TuyaAlarmHumidityUnder", "TuyaAlarmHumidityOver")
                # <<Num(1), Num(1)>>
        /\ TUYA_ALARM_TEMP \in DOMAIN manuf =>
                AlarmInputs(cache, "TuyaAlarmTempUnder", "TuyaAlarmTempOver")
                    = AlarmDecoded(manuf[TUYA_ALARM_TEMP])
        /\ TUYA_ALARM_HUMIDITY \in DOMAIN manuf =>
                AlarmInputs(cache, "TuyaAlarmHumidityUnder", "TuyaAlarmHumidityOver")
                    = AlarmDecoded(manuf[TUYA_ALARM_HUMIDITY])

\* C29 happens: the sensor reported a humidity underride and then a
\* temperature override.
C29_Witness ==
    /\ adapter = "sensor"
    /\ Reported(TUYA_ALARM_TEMP)
    /\ last.args[2] = Num(1)
    /\ TUYA_ALARM_HUMIDITY \in DOMAIN manuf
    /\ manuf[TUYA_ALARM_HUMIDITY] = Num(0)
    /\ AlarmInputs(cache, "TuyaAlarmTempUnder", "TuyaAlarmTempOver") = <<Num(0), Num(1)>>
    /\ AlarmInputs(cache, "TuyaAlarmHumidityUnder", "TuyaAlarmHumidityOver")
            = <<Num(1), Num(0)>>

\* C30: Maxsmart: for every raw battery report, the percentage published on
\* the battery bus lies in the range 0..100.
C30_MaxsmartBatteryRange ==
    (/\ adapter = "maxsmart"
     /\ last.op = "report"
     /\ last.args[1][1] \in {MAXSMART_BATTERY_ATTR, SILVERCREST_BATTERY_ATTR}) =>
        /\ \E i \in DOMAIN events :
                events[i].bus = "battery_bus" /\ events[i].name = "battery_change"
        /\ \A i \in DOMAIN events :
                events[i].bus = "battery_bus" =>
                    /\ Geq(events[i].args[1], Num(0))
                    /\ Geq(Num(100), events[i].args[1])
====
